---- MODULE Spec2Model ----
(***************************************************************************)
(* A model of the blog application of pholium: the post-reaction view set  *)
(* (toggle / create / destroy over the PostReaction table with its unique  *)
(* constraint), the post life cycle (Post.save, publish, archive, the      *)
(* admin actions, the caller-dependent querysets) and the comment          *)
(* moderation actions (approve / reject).                                  *)
(*                                                                         *)
(* Encoding of Python values:                                              *)
(*   None / missing key in request.data  ->  0 for ids, "" for strings     *)
(*   NULL datetime                        ->  NoTime (-1)                  *)
(*   datetimes                            ->  0 .. MaxTime                 *)
(***************************************************************************)
EXTENDS Integers, FiniteSets, Sequences, Bags, TLC

VARIABLES
    now,        \* timezone.now()
    posts,      \* blog_post table: PostIds -> row (status "none": no row)
    reactions,  \* blog_postreaction table: a bag of <<post, user, reaction>>
    req,        \* requests in flight on the reaction view set, per worker
    prev,       \* the response before the last one (sequential reaction runs)
    resp,       \* the last response sent
    comments,   \* blog_comment table: CommentIds -> row (post 0: no row)
    translations, \* blog_post_translation table: PostIds -> language -> row
    contact,    \* content_contactmessage rows, the mail setting and the mail sent
    view_count, \* blog_post.view_count: PostIds -> count
    reading_time \* blog_post.reading_time: PostIds -> minutes

vars == <<now, posts, reactions, req, prev, resp, comments, translations, contact,
         view_count, reading_time>>

----------------------------------------------------------------------------
(* Bounds *)

MaxTime == 1

Times == 0 .. MaxTime
NoTime == -1

----------------------------------------------------------------------------
(* Accounts and callers *)

Anon == "anon"
Users == {"alice", "bob", "root", "editor"}
Callers == Users \cup {Anon}

is_authenticated(c) == c \in Users
is_staff(c) == c \in {"root", "editor"}
\* user.has_perms(...) of DjangoModelPermissions: root is a superuser, bob was
\* given the model permissions, editor is staff without them, alice has none.
has_perms(c) == c \in {"root", "bob"}

\* views.py:39/50/62/103/161/188/204:
\*   not request.user.is_authenticated or not request.user.is_staff
NotStaff(c) == ~is_authenticated(c) \/ ~is_staff(c)

----------------------------------------------------------------------------
(* Choices *)

PostStatus == {"draft", "scheduled", "published", "archived"}
PostVisibility == {"public", "unlisted", "private"}
ReactionType == {"like", "love", "clap", "fire", "wow"}

----------------------------------------------------------------------------
(* Tables *)

PostIds == {1, 2}
\* No contact message stored, no mail host configured, no mail sent.
NoContact == [messages |-> {}, EMAIL_HOST |-> "", outbox |-> {}]
NoViews == [p \in PostIds |-> 0]

CommentIds == {1, 2}

NoPost == [status |-> "none", visibility |-> "public", published_at |-> NoTime,
           tagged |-> FALSE,
           author |-> "", category |-> 0, series |-> 0]
PostExists(ps, p) == p \in PostIds /\ ps[p].status # "none"

\* The languages translations are stored in, and a language without a row.
Langs == {"en", "pt"}
NoRow == [title |-> "", slug |-> ""]
NoTranslations == [p \in PostIds |-> [l \in Langs |-> NoRow]]

NoComment == [post |-> 0, parent |-> 0, user |-> "", guest_name |-> "",
              guest_email |-> "", is_approved |-> FALSE,
              ip_address |-> "", user_agent |-> ""]
CommentExists(cs, k) == k \in CommentIds /\ cs[k].post # 0

\* The post the reaction runs start with (post 1; post 2 has no row).
SomePost == [status |-> "published", visibility |-> "public", published_at |-> 0,
             tagged |-> FALSE,
             author |-> "", category |-> 0, series |-> 0]

----------------------------------------------------------------------------
(* PostReaction: table, unique constraint, serializer *)

Row(p, u, r) == <<p, u, r>>
RowCount(rs, t) == CopiesIn(t, rs)

\* PostReaction.objects.get(post_id=, user=, reaction=) finds a row.
ObjectsGet(rs, p, u, r) == BagIn(Row(p, u, r), rs)

\* UniqueConstraint(fields=["post", "user", "reaction"]): may t be inserted?
UniqueConstraintBroken(rs, t) == TRUE
UniqueConstraintOk(rs, t) == ~BagIn(t, rs)

InsertRow(rs, t) == rs (+) SetToBag({t})
DeleteRow(rs, t) == rs (-) SetToBag({t})

\* PostReactionSerializer(data=request.data).is_valid(): post, user and reaction
\* are writable model fields, so each is required and validated; the unique
\* constraint also gives the serializer a unique-together validator, which
\* looks the payload's (post, user, reaction) up.
SerializerValid(rs, ps, p, u, r) ==
    /\ PostExists(ps, p)
    /\ u \in Users
    /\ r \in ReactionType
    /\ ~BagIn(Row(p, u, r), rs)

\* What requests carry (request.data.get("post"), .get("reaction"), "user").
PostArgs == {0, 1}
ReactionArgs == {"", "like", "love", "bogus"}
UserArgs == {"", "alice", "bob"}
ReactCallers == {"alice", "bob", Anon}

----------------------------------------------------------------------------
(* PostReactionViewSet, request by request: each worker runs one request,  *)
(* and every database statement of a handler is one step.                  *)

Workers == {1, 2}

Idle == [op |-> "", pc |-> "idle", caller |-> "", post |-> 0, reaction |-> "",
         user |-> "", code |-> 0, detail |-> "", raced |-> FALSE]

Free(w) == req[w].pc \in {"idle", "done"}

Request(op, pc, c, p, r, u) ==
    [op |-> op, pc |-> pc, caller |-> c, post |-> p, reaction |-> r,
     user |-> u, code |-> 0, detail |-> "", raced |-> FALSE]

\* The answer to a request. Of the request itself only the kind is kept, and
\* the row it worked on when it raced (history for the race's outcome).
Answer(q, code, detail) ==
    IF q.raced
    THEN [q EXCEPT !.pc = "done", !.user = "", !.code = code, !.detail = detail]
    ELSE [Idle EXCEPT !.op = q.op, !.pc = "done", !.code = code, !.detail = detail]

SameRequest(a, b) ==
    /\ a.op = b.op /\ a.caller = b.caller /\ a.post = b.post
    /\ a.reaction = b.reaction /\ a.user = b.user

\* The row a request works on: the user is always request.user.
RowOfPayload(q) == Row(q.post, q.user, q.reaction)
RowOf(q) == Row(q.post, q.caller, q.reaction)

\* History only: a toggle that has seen absence while an identical toggle of
\* another worker, which has seen absence too, is still in flight.
RacesWith(q, o) ==
    /\ q.op = "toggle" /\ q.pc = "absent"
    /\ o.pc \in {"absent", "valid"} /\ SameRequest(q, o)

Arrive(w, q) ==
    req' = [o \in Workers |->
              IF o = w
              THEN [q EXCEPT !.raced = \E x \in Workers \ {w} : RacesWith(q, req[x])]
              ELSE [req[o] EXCEPT !.raced = RacesWith(q, req[o])]]

\* toggle, up to and including PostReaction.objects.get (views.py:236-248).
ToggleGet(w, c, p, r, u) ==
    /\ Free(w)
    /\ Arrive(w,
         IF p = 0 \/ r = ""
         THEN Answer(Request("toggle", "done", c, p, r, u), 400, "required")
         ELSE IF ~is_authenticated(c)
         THEN Answer(Request("toggle", "done", c, p, r, u), 500, "TypeError")
         ELSE IF ObjectsGet(reactions, p, c, r)
         THEN Request("toggle", "found", c, p, r, u)
         ELSE Request("toggle", "absent", c, p, r, u))
    /\ UNCHANGED <<now, posts, reactions, prev, resp, comments, translations, contact, view_count, reading_time>>

\* toggle: reaction.delete() and the 200 answer (views.py:249-256). The row is
\* deleted by primary key: when another request removed it meanwhile ("gone"),
\* the statement deletes nothing.
ToggleDelete(w) ==
    /\ req[w].pc \in {"found", "gone"}
    /\ reactions' = IF req[w].pc = "found"
                    THEN DeleteRow(reactions, RowOf(req[w]))
                    ELSE reactions
    /\ req' = [o \in Workers |->
                 IF o = w THEN Answer(req[w], 200, "removed")
                 ELSE IF req[o].pc = "found" /\ RowOf(req[o]) = RowOf(req[w])
                 THEN [req[o] EXCEPT !.pc = "gone"]
                 ELSE req[o]]
    /\ UNCHANGED <<now, posts, prev, resp, comments, translations, contact, view_count, reading_time>>

\* toggle: except DoesNotExist -> serializer.is_valid(raise_exception=True)
\* (views.py:257-259).
ToggleValidate(w) ==
    /\ req[w].pc = "absent"
    /\ req' = [req EXCEPT ![w] =
                 IF SerializerValid(reactions, posts, req[w].post, req[w].user,
                                    req[w].reaction)
                 THEN [req[w] EXCEPT !.pc = "valid"]
                 ELSE Answer(req[w], 400, "ValidationError")]
    /\ UNCHANGED <<now, posts, reactions, prev, resp, comments, translations, contact, view_count, reading_time>>

\* perform_create: serializer.save(user=request.user), the INSERT, and the 201
\* answer (views.py:231-232, 260-267). A constraint violation is not caught.
PerformCreate(w) ==
    /\ req[w].pc = "valid"
    /\ IF ~is_authenticated(req[w].caller)
       THEN /\ req' = [req EXCEPT ![w] = Answer(req[w], 500, "ValueError")]
            /\ UNCHANGED reactions
       ELSE IF UniqueConstraintOk(reactions, RowOf(req[w]))
       THEN /\ reactions' = InsertRow(reactions, RowOf(req[w]))
            /\ req' = [req EXCEPT ![w] = Answer(req[w], 201, "added")]
       ELSE /\ req' = [req EXCEPT ![w] = Answer(req[w], 500, "IntegrityError")]
            /\ UNCHANGED reactions
    /\ UNCHANGED <<now, posts, prev, resp, comments, translations, contact, view_count, reading_time>>

\* POST /post-reactions/ (CreateModelMixin.create): is_valid, then perform_create.
ReactionCreate(w, c, p, r, u) ==
    /\ Free(w)
    /\ Arrive(w,
         IF SerializerValid(reactions, posts, p, u, r)
         THEN Request("create", "valid", c, p, r, u)
         ELSE Answer(Request("create", "done", c, p, r, u), 400, "ValidationError"))
    /\ UNCHANGED <<now, posts, reactions, prev, resp, comments, translations, contact, view_count, reading_time>>

\* The filter mixin each view set is built on (views.py:55, 153, 219).
ViewSetMixin == [post |-> "AutoFilterTranslationMixin",
                 comment |-> "AutoFilterMixin",
                 reaction |-> "AutoFilterMixin"]

\* AutoFilterMixin.filter_queryset starts with self._get_translation_model(model)
\* (filters.py:83), a method only AutoFilterTranslationMixin defines
\* (filters.py:155-161): on a view set built on AutoFilterMixin alone the call
\* raises AttributeError.
FilterQuerysetRaises(view) == ViewSetMixin[view] # "AutoFilterTranslationMixin"

\* DELETE /post-reactions/{id}/: get_object() = filter_queryset(get_queryset())
\* raises before the row is looked up; get_queryset itself raises TypeError for
\* an anonymous caller (filter(user=AnonymousUser), views.py:226-227).
ReactionDestroy(w, c, p, r) ==
    /\ Free(w)
    /\ Arrive(w,
         IF ~is_authenticated(c)
         THEN Answer(Request("destroy", "done", c, p, r, ""), 500, "TypeError")
         ELSE IF FilterQuerysetRaises("reaction")
         THEN Answer(Request("destroy", "done", c, p, r, ""), 500, "AttributeError")
         ELSE Answer(Request("destroy", "done", c, p, r, ""), 204, "deleted"))
    /\ reactions' = IF is_authenticated(c) /\ ~FilterQuerysetRaises("reaction")
                       /\ ObjectsGet(reactions, p, c, r)
                    THEN DeleteRow(reactions, Row(p, c, r))
                    ELSE reactions
    /\ UNCHANGED <<now, posts, prev, resp, comments, translations, contact, view_count, reading_time>>

\* PostReactionAdmin: the admin site's delete of one row.
AdminReactionDelete(t) ==
    /\ BagIn(t, reactions)
    /\ reactions' = DeleteRow(reactions, t)
    /\ req' = [o \in Workers |->
                 IF req[o].pc = "found" /\ RowOf(req[o]) = t
                 THEN [req[o] EXCEPT !.pc = "gone", !.raced = FALSE]
                 ELSE [req[o] EXCEPT !.raced = FALSE]]
    /\ UNCHANGED <<now, posts, prev, resp, comments, translations, contact, view_count, reading_time>>

NoResp == [op |-> "", caller |-> "", post |-> 0, reaction |-> "", user |-> "",
           code |-> 0, added |-> FALSE, before |-> 0, after |-> 0]

InitReact ==
    /\ now = 0
    /\ posts = [p \in PostIds |-> IF p = 1 THEN SomePost ELSE NoPost]
    /\ reactions = EmptyBag
    /\ req = [w \in Workers |-> Idle]
    /\ prev = NoResp
    /\ resp = NoResp
    /\ comments = [k \in CommentIds |-> NoComment]
    /\ translations = NoTranslations
    /\ contact = NoContact
    /\ view_count = NoViews
    /\ reading_time = NoViews

NextReact ==
    \/ \E w \in Workers, c \in ReactCallers, p \in PostArgs,
          r \in ReactionArgs, u \in UserArgs : ToggleGet(w, c, p, r, u)
    \/ \E w \in Workers : ToggleDelete(w)
    \/ \E w \in Workers : ToggleValidate(w)
    \/ \E w \in Workers : PerformCreate(w)
    \/ \E w \in Workers, c \in ReactCallers, p \in PostArgs,
          r \in ReactionArgs, u \in UserArgs : ReactionCreate(w, c, p, r, u)
    \/ \E w \in Workers, c \in ReactCallers, p \in PostArgs,
          r \in ReactionArgs : ReactionDestroy(w, c, p, r)
    \/ \E p \in PostIds, u \in Users, r \in ReactionType :
          AdminReactionDelete(Row(p, u, r))

SpecReact == InitReact /\ [][NextReact]_vars

\* C1: at most one reaction row per (post, user, reaction type), in every
\* state reachable by interleaved toggle, create and delete requests.
C1_AtMostOneRow ==
    \A p \in PostIds, u \in Users, r \in ReactionType :
        RowCount(reactions, Row(p, u, r)) <= 1

\* C1's case: one of two racing creations was stopped by the constraint.
C1_Witness ==
    \E w \in Workers :
        /\ req[w].pc = "done" /\ req[w].detail = "IntegrityError" /\ req[w].raced
        /\ RowCount(reactions, RowOf(req[w])) = 1

\* C4: two concurrent identical toggles that both saw the reaction absent both
\* attempt creation; the unique constraint rejects exactly one, the rejection
\* surfaces unhandled (500, IntegrityError), and exactly one row exists after.
C4_RaceLeavesOneRow ==
    \A w1, w2 \in Workers :
        ( /\ w1 # w2
          /\ req[w1].pc = "done" /\ req[w1].raced
          /\ req[w2].pc = "done" /\ req[w2].raced
          /\ PostExists(posts, req[w1].post) /\ req[w1].reaction \in ReactionType )
        => /\ {req[w1].detail, req[w2].detail} = {"added", "IntegrityError"}
           /\ {req[w1].code, req[w2].code} = {201, 500}
           /\ RowCount(reactions, RowOf(req[w1])) = 1

----------------------------------------------------------------------------
(* PostReactionViewSet, one request after the other: each step is a whole  *)
(* handler, and the last two responses are kept.                           *)

Outcome(code, added, rs) == [code |-> code, added |-> added, rs |-> rs]

\* toggle (views.py:234-267), run to its response.
ToggleOutcome(rs, ps, c, p, r, u) ==
    IF p = 0 \/ r = "" THEN Outcome(400, FALSE, rs)
    ELSE IF ~is_authenticated(c) THEN Outcome(500, FALSE, rs)
    ELSE IF ObjectsGet(rs, p, c, r) THEN Outcome(200, FALSE, DeleteRow(rs, Row(p, c, r)))
    ELSE IF ~SerializerValid(rs, ps, p, u, r) THEN Outcome(400, FALSE, rs)
    ELSE IF ~UniqueConstraintOk(rs, Row(p, c, r)) THEN Outcome(500, FALSE, rs)
    ELSE Outcome(201, TRUE, InsertRow(rs, Row(p, c, r)))

Responded(op, c, p, r, u, out) ==
    /\ reactions' = out.rs
    /\ prev' = resp
    /\ resp' = [op |-> op, caller |-> c, post |-> p, reaction |-> r, user |-> u,
                code |-> out.code, added |-> out.added,
                before |-> RowCount(reactions, Row(p, c, r)),
                after |-> RowCount(out.rs, Row(p, c, r))]
    /\ UNCHANGED <<now, posts, req, comments, translations, contact, view_count, reading_time>>

ToggleRequest(c, p, r, u) ==
    Responded("toggle", c, p, r, u, ToggleOutcome(reactions, posts, c, p, r, u))

NextToggle ==
    \E c \in ReactCallers, p \in PostArgs, r \in ReactionArgs, u \in UserArgs :
        ToggleRequest(c, p, r, u)

SpecToggle == InitReact /\ [][NextToggle]_vars

\* The last two requests were the same toggle by the same caller.
ToggleTwice ==
    /\ prev.op = "toggle" /\ resp.op = "toggle"
    /\ prev.caller = resp.caller /\ prev.post = resp.post
    /\ prev.reaction = resp.reaction /\ prev.user = resp.user

\* C2: two consecutive identical toggles by one user leave the presence of the
\* (post, user, type) reaction as it was before the first.
C2_ToggleTwiceRestores ==
    ToggleTwice => resp.after = prev.before

\* A toggle whose body holds a valid post and reaction and no user field.
PostAndReactionOnly(e) ==
    /\ e.op = "toggle" /\ is_authenticated(e.caller) /\ e.user = ""
    /\ PostExists(posts, e.post) /\ e.reaction \in ReactionType

\* C3: such a toggle for an absent triple answers 201 added:true and creates
\* the row; repeated right after, it answers 200 added:false and deletes it.
C3_ToggleExample ==
    /\ (PostAndReactionOnly(resp) /\ resp.before = 0)
          => (resp.code = 201 /\ resp.added /\ resp.after = 1)
    /\ (ToggleTwice /\ PostAndReactionOnly(prev) /\ prev.before = 0)
          => (resp.code = 200 /\ ~resp.added /\ resp.after = 0)

----------------------------------------------------------------------------
(* Post: save, querysets, PostViewSet, PostAdmin                            *)

\* Post.save (models.py:293-296): a published post without a publish time gets
\* the current time. (reading_time, models.py:297-300, is not part of the row
\* modelled here.)
SaveRestamps(post, t) ==
    IF post.status = "published" THEN [post EXCEPT !.published_at = t] ELSE post
SaveNoStamp(post, t) == post
Save(post, t) ==
    IF post.status = "published" /\ post.published_at = NoTime
    THEN [post EXCEPT !.published_at = t]
    ELSE post

\* PostQuerySet.published (models.py:156-162); a NULL published_at never
\* satisfies published_at__lte.
IsPublishedWhenDue(post, t) ==
    /\ post.status \in {"published", "scheduled"}
    /\ post.visibility = "public"
    /\ post.published_at # NoTime /\ post.published_at <= t
IsPublished(post, t) ==
    /\ post.status = "published"
    /\ post.visibility = "public"
    /\ post.published_at # NoTime /\ post.published_at <= t

\* PostViewSet.get_queryset (views.py:59-70). tags: the request carries
\* ?tags=<id of the tag>, and post.tagged says the post has that tag.
PostGetQuerysetStaffOnlyAuth(ps, c, tags, t) ==
    {p \in PostIds :
        /\ PostExists(ps, p)
        /\ (~is_authenticated(c) => IsPublished(ps[p], t))
        /\ (tags => ps[p].tagged)}
PostGetQueryset(ps, c, tags, t) ==
    {p \in PostIds :
        /\ PostExists(ps, p)
        /\ (NotStaff(c) => IsPublished(ps[p], t))
        /\ (tags => ps[p].tagged)}

\* get_object(): the post of the URL, looked up in
\* filter_queryset(get_queryset()); no filter parameter other than tags is sent.
PostGetObject(ps, c, tags, p, t) ==
    /\ ~FilterQuerysetRaises("post")
    /\ p \in PostGetQueryset(ps, c, tags, t)

PostCallers == {Anon, "alice", "root"}
PostFields == {"status", "visibility", "published_at"}
FieldValues(f) ==
    IF f = "status" THEN PostStatus
    ELSE IF f = "visibility" THEN PostVisibility
    ELSE Times \cup {NoTime}

NoPostResp == [op |-> "", caller |-> "", tags |-> FALSE, post |-> 0, code |-> 0,
               ids |-> {}, fld |-> "", given |-> NoTime]

PostResp(op, c, tags, p, code) ==
    [op |-> op, caller |-> c, tags |-> tags, post |-> p, code |-> code,
     ids |-> {}, fld |-> "", given |-> NoTime]

\* Time passes; no request is answered.
Tick ==
    /\ now < MaxTime
    /\ now' = now + 1
    /\ resp' = NoPostResp
    /\ UNCHANGED <<posts, reactions, req, prev, comments, translations, contact, view_count, reading_time>>

\* POST /posts/ : serializer.save() -> Post.save(). The new row takes the
\* next free id.
PostCreate(c, p, st, vis, at) ==
    /\ p \in PostIds /\ ~PostExists(posts, p)
    /\ \A q \in PostIds : q < p => PostExists(posts, q)
    /\ posts' = [posts EXCEPT ![p] =
                   Save([status |-> st, visibility |-> vis, published_at |-> at,
                         tagged |-> FALSE,
                         author |-> "", category |-> 0, series |-> 0], now)]
    /\ resp' = [PostResp("create", c, FALSE, p, 201) EXCEPT !.given = at]
    /\ UNCHANGED <<now, reactions, req, prev, comments, translations, contact, view_count, reading_time>>

SetField(post, f, v) ==
    IF f = "status" THEN [post EXCEPT !.status = v]
    ELSE IF f = "visibility" THEN [post EXCEPT !.visibility = v]
    ELSE [post EXCEPT !.published_at = v]

\* PATCH /posts/{id}/ with one field: get_object, setattr, Post.save().
PostPartialUpdate(c, tags, p, f, v) ==
    /\ IF PostGetObject(posts, c, tags, p, now)
       THEN /\ posts' = [posts EXCEPT ![p] = Save(SetField(@, f, v), now)]
            /\ resp' = [PostResp("update", c, tags, p, 200) EXCEPT
                           !.fld = f,
                           !.given = IF f = "published_at" THEN v ELSE NoTime]
       ELSE /\ resp' = [PostResp("update", c, tags, p, 404) EXCEPT !.fld = f]
            /\ UNCHANGED posts
    /\ UNCHANGED <<now, reactions, req, prev, comments, translations, contact, view_count, reading_time>>

\* PostViewSet.publish (views.py:116-135).
PublishNoConflictCheck(c, tags, p) ==
    /\ IF ~PostGetObject(posts, c, tags, p, now)
       THEN /\ resp' = PostResp("publish", c, tags, p, 404)
            /\ UNCHANGED posts
       ELSE /\ posts' = [posts EXCEPT ![p] =
                           Save([@ EXCEPT !.status = "published",
                                          !.published_at = now],
                                now)]
            /\ resp' = PostResp("publish", c, tags, p, 200)
    /\ UNCHANGED <<now, reactions, req, prev, comments, translations, contact, view_count, reading_time>>
Publish(c, tags, p) ==
    /\ IF ~PostGetObject(posts, c, tags, p, now)
       THEN /\ resp' = PostResp("publish", c, tags, p, 404)
            /\ UNCHANGED posts
       ELSE IF posts[p].status = "published"
       THEN /\ resp' = PostResp("publish", c, tags, p, 400)
            /\ UNCHANGED posts
       ELSE /\ posts' = [posts EXCEPT ![p] =
                           Save([@ EXCEPT !.status = "published",
                                          !.published_at =
                                              IF @ = NoTime THEN now ELSE @],
                                now)]
            /\ resp' = PostResp("publish", c, tags, p, 200)
    /\ UNCHANGED <<now, reactions, req, prev, comments, translations, contact, view_count, reading_time>>

\* PostViewSet.archive (views.py:137-145).
ArchiveClearsTime(c, tags, p) ==
    /\ IF ~PostGetObject(posts, c, tags, p, now)
       THEN /\ resp' = PostResp("archive", c, tags, p, 404)
            /\ UNCHANGED posts
       ELSE /\ posts' = [posts EXCEPT ![p] =
                           Save([@ EXCEPT !.status = "archived",
                                          !.published_at = NoTime], now)]
            /\ resp' = PostResp("archive", c, tags, p, 200)
    /\ UNCHANGED <<now, reactions, req, prev, comments, translations, contact, view_count, reading_time>>
Archive(c, tags, p) ==
    /\ IF ~PostGetObject(posts, c, tags, p, now)
       THEN /\ resp' = PostResp("archive", c, tags, p, 404)
            /\ UNCHANGED posts
       ELSE /\ posts' = [posts EXCEPT ![p] =
                           Save([@ EXCEPT !.status = "archived"], now)]
            /\ resp' = PostResp("archive", c, tags, p, 200)
    /\ UNCHANGED <<now, reactions, req, prev, comments, translations, contact, view_count, reading_time>>

\* PostAdmin.make_published (admin.py:266-273): status, then Post.save(), for
\* every selected post.
MakePublished(S) ==
    /\ S # {} /\ \A p \in S : PostExists(posts, p)
    /\ posts' = [p \in PostIds |->
                   IF p \in S
                   THEN Save([posts[p] EXCEPT !.status = "published"], now)
                   ELSE posts[p]]
    /\ resp' = [PostResp("make_published", "root", FALSE, 0, 200) EXCEPT !.ids = S]
    /\ UNCHANGED <<now, reactions, req, prev, comments, translations, contact, view_count, reading_time>>

\* PostAdmin.make_draft (admin.py:275-278): queryset.update, no Post.save().
MakeDraft(S) ==
    /\ S # {} /\ \A p \in S : PostExists(posts, p)
    /\ posts' = [p \in PostIds |->
                   IF p \in S THEN [posts[p] EXCEPT !.status = "draft"] ELSE posts[p]]
    /\ resp' = [PostResp("make_draft", "root", FALSE, 0, 200) EXCEPT !.ids = S]
    /\ UNCHANGED <<now, reactions, req, prev, comments, translations, contact, view_count, reading_time>>

InitPost ==
    /\ now = 0
    /\ posts = [p \in PostIds |-> NoPost]
    /\ reactions = EmptyBag
    /\ req = [w \in Workers |-> Idle]
    /\ prev = NoResp
    /\ resp = NoPostResp
    /\ comments = [k \in CommentIds |-> NoComment]
    /\ translations = NoTranslations
    /\ contact = NoContact
    /\ view_count = NoViews
    /\ reading_time = NoViews

NextPost ==
    \/ Tick
    \/ \E c \in PostCallers, p \in PostIds, st \in PostStatus,
          vis \in PostVisibility, at \in Times \cup {NoTime} :
          PostCreate(c, p, st, vis, at)
    \/ \E c \in PostCallers, p \in PostIds, f \in PostFields :
          \E v \in FieldValues(f) : PostPartialUpdate(c, FALSE, p, f, v)
    \/ \E c \in PostCallers, p \in PostIds : Publish(c, FALSE, p)
    \/ \E c \in PostCallers, p \in PostIds : Archive(c, FALSE, p)
    \/ \E S \in SUBSET PostIds : MakePublished(S)
    \/ \E S \in SUBSET PostIds : MakeDraft(S)

SpecPost == InitPost /\ [][NextPost]_vars

\* The step is the request (or admin action) op: every step but Tick records
\* its response, and Tick clears it.
Did(op) == resp'.op = op

\* The step called Post.save() on post p.
SavedPost(p) ==
    \/ /\ \E op \in {"create", "update", "publish", "archive"} : Did(op)
       /\ resp'.post = p /\ resp'.code \in {200, 201}
    \/ Did("make_published") /\ p \in resp'.ids

\* The step's request carried a published_at of its own.
GavePublishTime == resp'.op \in {"create", "update"} /\ resp'.fld \in {"", "published_at"}

\* published_at of the instance when save() was called.
PublishTimeAtSave(p) ==
    IF GavePublishTime THEN resp'.given ELSE posts[p].published_at

\* C5: a post saved with status published and no publish time gets the current
\* time; once published_at is set, no save, publish or archive (no operation
\* that carries no published_at of its own) changes it.
C5_PublishTimeSetOnceAndKept ==
    [][\A p \in PostIds :
          /\ ( /\ SavedPost(p)
               /\ posts'[p].status = "published"
               /\ PublishTimeAtSave(p) = NoTime )
             => posts'[p].published_at = now
          /\ ( /\ SavedPost(p) \/ (Did("make_draft") /\ p \in resp'.ids)
               /\ ~GavePublishTime
               /\ posts[p].published_at # NoTime )
             => posts'[p].published_at = posts[p].published_at
      ]_vars

\* C5's case: a post published again later keeps its earlier publish time.
C5_Witness ==
    /\ resp.op = "publish" /\ resp.code = 200
    /\ posts[resp.post].status = "published"
    /\ posts[resp.post].published_at # NoTime
    /\ posts[resp.post].published_at < now

\* C6: a post whose status is published has a non-null published_at.
C6_PublishedHasTime ==
    \A p \in PostIds :
        (PostExists(posts, p) /\ posts[p].status = "published")
            => posts[p].published_at # NoTime

\* C6's case: the admin action published a post, which has a publish time.
C6_Witness ==
    /\ resp.op = "make_published"
    /\ \E p \in resp.ids :
          posts[p].status = "published" /\ posts[p].published_at = now /\ now > 0

\* What publish is claimed to do to post p once it is found.
PublishEffect(p) ==
    IF posts[p].status = "published"
    THEN resp'.code \in 400 .. 499 /\ posts' = posts
    ELSE /\ resp'.code = 200
         /\ posts'[p] = [posts[p] EXCEPT
                           !.status = "published",
                           !.published_at = IF @ = NoTime THEN now ELSE @]
         /\ \A q \in PostIds \ {p} : posts'[q] = posts[q]

\* What archive is claimed to do to post p once it is found.
ArchiveEffect(p) ==
    /\ resp'.code = 200
    /\ posts'[p] = [posts[p] EXCEPT !.status = "archived"]
    /\ \A q \in PostIds \ {p} : posts'[q] = posts[q]

\* The caller's requests reach post p: staff reach every post; any other
\* caller only a post that is published, public and not dated in the future.
Reaches(c, p) ==
    \/ is_authenticated(c) /\ is_staff(c)
    \/ /\ posts[p].status = "published" /\ posts[p].visibility = "public"
       /\ posts[p].published_at # NoTime /\ posts[p].published_at <= now

\* C7 as stated: publish on an already published post answers a 400-class
\* error and changes nothing; on a post in any other status it publishes it,
\* setting published_at to the current time only when it was unset.
C7_PublishAnyCaller ==
    [][\A p \in PostIds :
          (Did("publish") /\ resp'.post = p /\ PostExists(posts, p))
             => PublishEffect(p)
      ]_vars

\* C7 amended: so it is for a post the caller's requests reach; for any other
\* post publish answers 404 and changes nothing.
C7_PublishReachable ==
    [][\A p \in PostIds :
          (Did("publish") /\ resp'.post = p /\ ~resp'.tags /\ PostExists(posts, p))
             => IF Reaches(resp'.caller, p)
                THEN PublishEffect(p)
                ELSE resp'.code = 404 /\ posts' = posts
      ]_vars

\* C7's case: staff publish an already published post and get the 400.
C7_Witness ==
    /\ resp.op = "publish" /\ resp.code = 400 /\ is_staff(resp.caller)
    /\ posts[resp.post].status = "published"

\* C8 as stated: archive on a post in any status succeeds and leaves it
\* archived, with published_at and visibility unchanged.
C8_ArchiveAnyCaller ==
    [][\A p \in PostIds :
          (Did("archive") /\ resp'.post = p /\ PostExists(posts, p))
             => ArchiveEffect(p)
      ]_vars

\* C8 amended: so it is for a post the caller's requests reach; for any other
\* post archive answers 404 and changes nothing.
C8_ArchiveReachable ==
    [][\A p \in PostIds :
          (Did("archive") /\ resp'.post = p /\ ~resp'.tags /\ PostExists(posts, p))
             => IF Reaches(resp'.caller, p)
                THEN ArchiveEffect(p)
                ELSE resp'.code = 404 /\ posts' = posts
      ]_vars

\* C8's case: a private post with a publish time was archived and kept both.
C8_Witness ==
    /\ resp.op = "archive" /\ resp.code = 200
    /\ posts[resp.post].status = "archived"
    /\ posts[resp.post].visibility = "private"
    /\ posts[resp.post].published_at # NoTime

----------------------------------------------------------------------------
(* Reading posts: list, retrieve, the published listing                    *)

\* PostAdmin's add form (admin.py:209-241): every publishing field is
\* editable, and the form saves through Post.save().
AdminPostAdd(p, st, vis, at) ==
    /\ p \in PostIds /\ ~PostExists(posts, p)
    /\ \A q \in PostIds : q < p => PostExists(posts, q)
    /\ posts' = [posts EXCEPT ![p] =
                   Save([status |-> st, visibility |-> vis, published_at |-> at,
                         tagged |-> FALSE,
                         author |-> "", category |-> 0, series |-> 0], now)]
    /\ resp' = PostResp("admin_add", "root", FALSE, 0, 200)
    /\ UNCHANGED <<now, reactions, req, prev, comments, translations, contact, view_count, reading_time>>

\* PostAdmin's change form, one field edited: saved through Post.save().
AdminPostChange(p, f, v) ==
    /\ PostExists(posts, p)
    /\ posts' = [posts EXCEPT ![p] = Save(SetField(@, f, v), now)]
    /\ resp' = PostResp("admin_change", "root", FALSE, 0, 200)
    /\ UNCHANGED <<now, reactions, req, prev, comments, translations, contact, view_count, reading_time>>

\* PostTagInline (admin.py:200): the tag is added to or taken off a post.
AdminPostTag(p, on) ==
    /\ PostExists(posts, p)
    /\ posts[p].tagged # on
    /\ posts' = [posts EXCEPT ![p].tagged = on]
    /\ resp' = PostResp("admin_tag", "root", FALSE, 0, 200)
    /\ UNCHANGED <<now, reactions, req, prev, comments, translations, contact, view_count, reading_time>>

Read(op, c, tags, p, code, ids) ==
    /\ resp' = [PostResp(op, c, tags, p, code) EXCEPT !.ids = ids]
    /\ UNCHANGED <<now, posts, reactions, req, prev, comments, translations, contact, view_count, reading_time>>

\* GET /posts/ : filter_queryset(get_queryset()).
PostList(c, tags) ==
    Read("list", c, tags, 0, 200, PostGetQueryset(posts, c, tags, now))

\* GET /posts/{id}/ (views.py:72-89): get_object, then the serialized post.
\* (The view counter it also writes is followed step by step in GetObject and
\* RetrieveUpdate.)
PostRetrieve(c, tags, p) ==
    IF PostGetObject(posts, c, tags, p, now)
    THEN Read("retrieve", c, tags, p, 200, {p})
    ELSE Read("retrieve", c, tags, p, 404, {})

\* GET /posts/published/ (views.py:91-99): get_queryset().published().
PublishedListing(c, tags) ==
    Read("published", c, tags, 0, 200,
         {p \in PostGetQueryset(posts, c, tags, now) : IsPublished(posts[p], now)})

NextFeed ==
    \/ Tick
    \/ \E p \in PostIds, st \in PostStatus, vis \in PostVisibility,
          at \in Times \cup {NoTime} : AdminPostAdd(p, st, vis, at)
    \/ \E p \in PostIds, f \in PostFields :
          \E v \in FieldValues(f) : AdminPostChange(p, f, v)
    \/ \E p \in PostIds, on \in BOOLEAN : AdminPostTag(p, on)
    \/ \E c \in PostCallers, tags \in BOOLEAN : PostList(c, tags)
    \/ \E c \in PostCallers, tags \in BOOLEAN, p \in PostIds : PostRetrieve(c, tags, p)
    \/ \E c \in PostCallers, tags \in BOOLEAN : PublishedListing(c, tags)

SpecFeed == InitPost /\ [][NextFeed]_vars

\* PostQuerySet.scheduled (models.py:164-166).
IsScheduled(post, t) ==
    post.status = "scheduled" /\ post.published_at # NoTime /\ post.published_at > t

\* The methods of PostManager (models.py:174-179): a models.Manager subclass
\* with get_queryset and published of its own, next to the methods every
\* Manager has; it is not built from PostQuerySet, so scheduled is not there.
PostManagerMethods == {"get_queryset", "published", "all", "filter", "get"}

\* GET /posts/scheduled/ (views.py:101-114): the staff check, then
\* filter_queryset(Post.objects.scheduled()).
Scheduled(c) ==
    IF ~is_authenticated(c) \/ ~is_staff(c)
    THEN Read("scheduled", c, FALSE, 0, 403, {})
    ELSE IF "scheduled" \notin PostManagerMethods
    THEN Read("scheduled", c, FALSE, 0, 500, {})
    ELSE Read("scheduled", c, FALSE, 0, 200,
              {p \in PostIds : PostExists(posts, p) /\ IsScheduled(posts[p], now)})

NextScheduled ==
    \/ Tick
    \/ \E p \in PostIds, st \in PostStatus, vis \in PostVisibility,
          at \in Times \cup {NoTime} : AdminPostAdd(p, st, vis, at)
    \/ \E p \in PostIds, f \in PostFields :
          \E v \in FieldValues(f) : AdminPostChange(p, f, v)
    \/ \E c \in PostCallers : Scheduled(c)

SpecScheduled == InitPost /\ [][NextScheduled]_vars

\* C14: the scheduled listing answers 403 to a caller who is not authenticated
\* staff, and to staff returns exactly the posts whose status is scheduled and
\* whose published_at is strictly later than now.
C14_ScheduledListing ==
    resp.op = "scheduled"
    => IF ~(is_authenticated(resp.caller) /\ is_staff(resp.caller))
       THEN resp.code = 403 /\ resp.ids = {}
       ELSE /\ resp.code = 200
            /\ resp.ids = {p \in PostIds :
                             /\ PostExists(posts, p)
                             /\ posts[p].status = "scheduled"
                             /\ posts[p].published_at # NoTime
                             /\ posts[p].published_at > now}

----------------------------------------------------------------------------
(* Comments: create, approve, reject, the admin's bulk actions              *)

\* CreateOrListReadOnly.has_permission (permissions.py:22-25): create and list
\* are open; any other action falls to DjangoModelPermissions, which wants an
\* authenticated user holding the model permissions of the request's method
\* (none for the GET of retrieve).
CreateOrListReadOnly(c, action) ==
    \/ action = "create" \/ action = "list"
    \/ is_authenticated(c) /\ (action = "retrieve" \/ has_perms(c))

\* CommentViewSet.get_queryset (views.py:158-164).
CommentGetQueryset(cs, c) ==
    {k \in CommentIds :
        CommentExists(cs, k) /\ (NotStaff(c) => cs[k].is_approved)}

\* CommentSerializer.validate (serializers.py:173-189); "" is falsy.
CommentValid(user, guest_name, guest_email) ==
    /\ ~(user = "" /\ guest_name = "")
    /\ ~(user = "" /\ guest_email = "")

CommentUserArgs == {"", "alice"}
GuestNameArgs == {"", "guest"}
GuestEmailArgs == {"", "guest@example.org"}
CommentCallers == Callers
CommentCreators == {Anon, "alice"}

\* The body of POST /comments/ : the writable fields of CommentSerializer
\* (serializers.py:150-171), and "forged", which says the body also carries
\* values for the read-only ip_address and user_agent.
Payload(p, par, u, n, e, a, forged) ==
    [post |-> p, parent |-> par, user |-> u, guest_name |-> n, guest_email |-> e,
     is_approved |-> a, forged |-> forged]
CommentPayloads ==
    {Payload(1, 0, u, n, e, a, f) :
        u \in CommentUserArgs, n \in GuestNameArgs, e \in GuestEmailArgs,
        a \in BOOLEAN, f \in BOOLEAN}

\* The bodies that leave is_approved, ip_address and user_agent alone.
PlainPayloads == {q \in CommentPayloads : ~q.forged /\ ~q.is_approved}

\* request.META of the request: X-Forwarded-For ("" when the header is
\* absent), REMOTE_ADDR, User-Agent ("" when absent).
ForwardedArgs == {"", "203.0.113.7"}
RemoteAddr == "10.0.0.1"
UserAgentArgs == {"", "Mozilla"}
ForgedValue == "forged"
Metas ==
    {[forwarded |-> x, remote_addr |-> RemoteAddr, user_agent |-> ua] :
        x \in ForwardedArgs, ua \in UserAgentArgs}

PlainMeta == [forwarded |-> "", remote_addr |-> RemoteAddr, user_agent |-> "Mozilla"]

\* CommentViewSet.get_client_ip (views.py:178-184); the model's forwarded
\* header holds one address, its own first element.
get_client_ip(meta) ==
    IF meta.forwarded # "" THEN meta.forwarded ELSE meta.remote_addr

\* The row serializer.save(ip_address=, user_agent=, is_approved=False) stores
\* (views.py:166-173): read-only fields of the body are dropped by the
\* serializer, the keyword arguments override the validated data.
SaveTrustsPayload(q, meta) ==
    [post |-> q.post, parent |-> q.parent, user |-> q.user,
     guest_name |-> q.guest_name, guest_email |-> q.guest_email,
     is_approved |-> q.is_approved,
     ip_address |-> IF q.forged THEN ForgedValue ELSE get_client_ip(meta),
     user_agent |-> IF q.forged THEN ForgedValue ELSE meta.user_agent]
SerializerSave(q, meta) ==
    [post |-> q.post, parent |-> q.parent, user |-> q.user,
     guest_name |-> q.guest_name, guest_email |-> q.guest_email,
     is_approved |-> FALSE,
     ip_address |-> get_client_ip(meta),
     user_agent |-> meta.user_agent]

\* The related objects the body names exist (the serializer's
\* PrimaryKeyRelatedFields for post and parent).
RelatedValid(cs, ps, q) ==
    /\ PostExists(ps, q.post)
    /\ q.parent = 0 \/ CommentExists(cs, q.parent)

\* POST /comments/ : validate, then perform_create (views.py:166-176).
CommentCreate(c, k, q, meta) ==
    /\ k \in CommentIds /\ ~CommentExists(comments, k)
    /\ \A j \in CommentIds : j < k => CommentExists(comments, j)
    /\ IF /\ CreateOrListReadOnly(c, "create")
          /\ RelatedValid(comments, posts, q)
          /\ CommentValid(q.user, q.guest_name, q.guest_email)
       THEN /\ comments' = [comments EXCEPT ![k] = SerializerSave(q, meta)]
            /\ resp' = [op |-> "comment_create", caller |-> c, post |-> k,
                        code |-> 201, ids |-> {}, payload |-> q, meta |-> meta]
       ELSE /\ resp' = [op |-> "comment_create", caller |-> c, post |-> 0,
                        code |-> 400, ids |-> {}, payload |-> q, meta |-> meta]
            /\ UNCHANGED comments
    /\ UNCHANGED <<now, posts, reactions, req, prev, translations, contact, view_count, reading_time>>

\* CommentViewSet.approve / reject (views.py:186-216), after the permission
\* class: the staff check, get_object() -- whose filter_queryset raises on this
\* view set --, then is_approved and save().  The outcome is the status code
\* and the comment table left behind.
Moderate(cs, op, c, k, approved) ==
    IF ~CreateOrListReadOnly(c, op) \/ NotStaff(c)
    THEN [code |-> 403, comments |-> cs]
    ELSE IF FilterQuerysetRaises("comment")
    THEN [code |-> 500, comments |-> cs]
    ELSE IF k \notin CommentGetQueryset(cs, c)
    THEN [code |-> 404, comments |-> cs]
    ELSE [code |-> 200, comments |-> [cs EXCEPT ![k].is_approved = approved]]

\* POST /comments/{id}/approve/ (views.py:186-200).
CommentApprove(c, k) ==
    /\ k \in CommentIds
    /\ LET out == Moderate(comments, "approve", c, k, TRUE)
       IN  /\ comments' = out.comments
           /\ resp' = PostResp("approve", c, FALSE, k, out.code)
    /\ UNCHANGED <<now, posts, reactions, req, prev, translations, contact, view_count, reading_time>>

\* POST /comments/{id}/reject/ (views.py:202-216).
CommentReject(c, k) ==
    /\ k \in CommentIds
    /\ LET out == Moderate(comments, "reject", c, k, FALSE)
       IN  /\ comments' = out.comments
           /\ resp' = PostResp("reject", c, FALSE, k, out.code)
    /\ UNCHANGED <<now, posts, reactions, req, prev, translations, contact, view_count, reading_time>>

\* queryset.update(is_approved=...) over the selected rows.
QuerysetUpdate(cs, S, approved) ==
    [k \in CommentIds |->
        IF k \in S THEN [cs[k] EXCEPT !.is_approved = approved] ELSE cs[k]]

\* CommentAdmin.approve_selected (admin.py:337-340).
ApproveSelected(S) ==
    /\ S # {} /\ \A k \in S : CommentExists(comments, k)
    /\ comments' = QuerysetUpdate(comments, S, TRUE)
    /\ resp' = [PostResp("approve_selected", "root", FALSE, 0, 200) EXCEPT !.ids = S]
    /\ UNCHANGED <<now, posts, reactions, req, prev, translations, contact, view_count, reading_time>>

\* CommentAdmin.reject_selected (admin.py:342-345).
RejectSelected(S) ==
    /\ S # {} /\ \A k \in S : CommentExists(comments, k)
    /\ comments' = QuerysetUpdate(comments, S, FALSE)
    /\ resp' = [PostResp("reject_selected", "root", FALSE, 0, 200) EXCEPT !.ids = S]
    /\ UNCHANGED <<now, posts, reactions, req, prev, translations, contact, view_count, reading_time>>

\* A field of a PATCH body is absent, or carries a value ("" for null/blank).
Absent == "absent"
PatchOf(u, n, e) == [user |-> u, guest_name |-> n, guest_email |-> e]
Patches ==
    {PatchOf(u, n, e) : u \in CommentUserArgs \cup {Absent},
                        n \in GuestNameArgs \cup {Absent},
                        e \in GuestEmailArgs \cup {Absent}}
\* attrs.get(f): None, which is falsy as "" is, for a field the body lacks.
AttrsGet(patch, f) == IF patch[f] = Absent THEN "" ELSE patch[f]
\* serializer.save() of an update: only the fields of the body are assigned.
Patched(row, patch) ==
    [row EXCEPT !.user = IF patch.user = Absent THEN @ ELSE patch.user,
                !.guest_name = IF patch.guest_name = Absent THEN @ ELSE patch.guest_name,
                !.guest_email = IF patch.guest_email = Absent THEN @ ELSE patch.guest_email]

\* PATCH /comments/{id}/ (ModelViewSet.partial_update): permission class,
\* get_object, CommentSerializer.validate on the fields of the body, save.
CommentPartialUpdate(c, k, patch) ==
    /\ k \in CommentIds
    /\ LET code ==
             IF ~CreateOrListReadOnly(c, "partial_update") THEN 403
             ELSE IF FilterQuerysetRaises("comment") THEN 500
             ELSE IF k \notin CommentGetQueryset(comments, c) THEN 404
             ELSE IF ~CommentValid(AttrsGet(patch, "user"),
                                   AttrsGet(patch, "guest_name"),
                                   AttrsGet(patch, "guest_email")) THEN 400
             ELSE 200
       IN  /\ comments' = IF code = 200
                          THEN [comments EXCEPT ![k] = Patched(@, patch)]
                          ELSE comments
           /\ resp' = PostResp("comment_patch", c, FALSE, k, code)
    /\ UNCHANGED <<now, posts, reactions, req, prev, translations, contact, view_count, reading_time>>

\* on_delete=SET_NULL on a reference of the post row (models.py:190-212).
SetNull(post, f) == [post EXCEPT ![f] = IF f = "author" THEN "" ELSE 0]

\* The account of user u is deleted: Comment.user and Post.author are
\* on_delete=SET_NULL (models.py:345-352, 190-196), PostReaction.user is
\* on_delete=CASCADE (models.py:383-388).  The name is free for a new account
\* afterwards.
UserDelete(u) ==
    /\ u \in Users
    /\ comments' = [k \in CommentIds |->
                      IF comments[k].user = u THEN [comments[k] EXCEPT !.user = ""]
                      ELSE comments[k]]
    /\ reactions' = [t \in {x \in DOMAIN reactions : x[2] # u} |-> reactions[t]]
    /\ posts' = [p \in PostIds |->
                   IF posts[p].author = u THEN SetNull(posts[p], "author") ELSE posts[p]]
    /\ resp' = PostResp("user_delete", u, FALSE, 0, 200)
    /\ UNCHANGED <<now, req, prev, translations, contact, view_count, reading_time>>

\* GET /comments/ (ModelViewSet.list): filter_queryset(get_queryset()).
CommentList(c) ==
    /\ IF FilterQuerysetRaises("comment")
       THEN resp' = PostResp("comment_list", c, FALSE, 0, 500)
       ELSE resp' = [PostResp("comment_list", c, FALSE, 0, 200)
                       EXCEPT !.ids = CommentGetQueryset(comments, c)]
    /\ UNCHANGED <<now, posts, reactions, req, prev, comments, translations, contact, view_count, reading_time>>

\* GET /comments/{id}/ (ModelViewSet.retrieve): permission class, get_object.
CommentRetrieve(c, k) ==
    /\ k \in CommentIds
    /\ IF ~CreateOrListReadOnly(c, "retrieve")
       THEN resp' = PostResp("comment_retrieve", c, FALSE, k, 403)
       ELSE IF FilterQuerysetRaises("comment")
       THEN resp' = PostResp("comment_retrieve", c, FALSE, k, 500)
       ELSE IF k \notin CommentGetQueryset(comments, c)
       THEN resp' = PostResp("comment_retrieve", c, FALSE, k, 404)
       ELSE resp' = [PostResp("comment_retrieve", c, FALSE, k, 200) EXCEPT !.ids = {k}]
    /\ UNCHANGED <<now, posts, reactions, req, prev, comments, translations, contact, view_count, reading_time>>

\* AutoFlexFieldsSerializer.expandable_fields (auto_flex_fields_serializer.py:
\* 10-32) registers every relation of the model, the reverse relation
\* "comments" of Post included, with the related serializer and many=True: the
\* expanded field serializes post.comments.all().
ExpandComments(cs, p) == {k \in CommentIds : CommentExists(cs, k) /\ cs[k].post = p}

\* GET /posts/{id}/?expand=comments (views.py:72-89): get_object, then the
\* serializer with the expansion asked for.
PostRetrieveExpand(c, p) ==
    /\ p \in PostIds
    /\ IF PostGetObject(posts, c, FALSE, p, now)
       THEN resp' = [PostResp("retrieve_expand", c, FALSE, p, 200)
                       EXCEPT !.ids = ExpandComments(comments, p)]
       ELSE resp' = PostResp("retrieve_expand", c, FALSE, p, 404)
    /\ UNCHANGED <<now, posts, reactions, req, prev, comments, translations, contact, view_count, reading_time>>

InitComment ==
    /\ now = 0
    /\ posts = [p \in PostIds |-> IF p = 1 THEN SomePost ELSE NoPost]
    /\ reactions = EmptyBag
    /\ req = [w \in Workers |-> Idle]
    /\ prev = NoResp
    /\ resp = NoPostResp
    /\ comments = [k \in CommentIds |-> NoComment]
    /\ translations = NoTranslations
    /\ contact = NoContact
    /\ view_count = NoViews
    /\ reading_time = NoViews

NextComment ==
    \/ \E c \in CommentCreators, k \in CommentIds, q \in PlainPayloads :
          CommentCreate(c, k, q, PlainMeta)
    \/ \E c \in CommentCallers, k \in CommentIds : CommentApprove(c, k)
    \/ \E c \in CommentCallers, k \in CommentIds : CommentReject(c, k)
    \/ \E S \in SUBSET CommentIds : ApproveSelected(S)
    \/ \E S \in SUBSET CommentIds : RejectSelected(S)
    \/ \E c \in CommentCallers : CommentList(c)
    \/ \E c \in CommentCallers, k \in CommentIds : CommentRetrieve(c, k)
    \/ \E c \in CommentCallers, p \in PostIds : PostRetrieveExpand(c, p)

SpecComment == InitComment /\ [][NextComment]_vars

\* Comment creation alone, with every body and every request header.
NextCommentCreate ==
    \E c \in CommentCreators, k \in CommentIds, q \in CommentPayloads,
       meta \in Metas : CommentCreate(c, k, q, meta)

SpecCommentCreate == InitComment /\ [][NextCommentCreate]_vars

\* The writes that touch a comment's user and guest fields.
NextCommentAuthor ==
    \/ \E c \in CommentCreators, k \in CommentIds, q \in PlainPayloads :
          CommentCreate(c, k, q, PlainMeta)
    \/ \E c \in CommentCallers, k \in CommentIds, patch \in Patches :
          CommentPartialUpdate(c, k, patch)
    \/ \E u \in CommentUserArgs \ {""} : UserDelete(u)

SpecCommentAuthor == InitComment /\ [][NextCommentAuthor]_vars

\* C10: approve and reject by a caller who is not authenticated staff answer
\* 403 and leave is_approved unchanged; by staff, approve leaves is_approved
\* true and reject leaves it false, whatever it was.
C10_ModerationByStaffOnly ==
    [][\A k \in CommentIds :
          ( /\ Did("approve") \/ Did("reject")
            /\ resp'.post = k /\ CommentExists(comments, k) )
          => IF ~(is_authenticated(resp'.caller) /\ is_staff(resp'.caller))
             THEN resp'.code = 403 /\ comments' = comments
             ELSE comments'[k].is_approved = (resp'.op = "approve")
      ]_vars

\* C11: a caller who is not authenticated staff never receives a comment whose
\* is_approved is false, whichever request hands comments out.
C11_UnapprovedHidden ==
    ( /\ resp.op \in {"comment_list", "comment_retrieve", "retrieve_expand"}
      /\ ~(is_authenticated(resp.caller) /\ is_staff(resp.caller)) )
    => \A k \in resp.ids : comments[k].is_approved

\* C12: creating a comment is rejected with a validation error when neither
\* user nor guest_name is given, and when no user and no guest_email is given;
\* with guest_name and guest_email both given it succeeds, and the stored
\* comment has is_approved false whatever the payload says, with IP address
\* and user agent taken from the request and not from the payload.
C12_CommentCreateRules ==
    [][Did("comment_create") =>
         LET q == resp'.payload
             meta == resp'.meta
             k == resp'.post
         IN  /\ (q.user = "" /\ q.guest_name = "")
                   => resp'.code = 400 /\ comments' = comments
             /\ (q.user = "" /\ q.guest_email = "")
                   => resp'.code = 400 /\ comments' = comments
             /\ (q.guest_name # "" /\ q.guest_email # "")
                   => /\ resp'.code = 201
                      /\ ~CommentExists(comments, k) /\ CommentExists(comments', k)
                      /\ comments'[k].guest_name = q.guest_name
                      /\ comments'[k].guest_email = q.guest_email
                      /\ comments'[k].is_approved = FALSE
                      /\ comments'[k].ip_address \in {meta.forwarded, meta.remote_addr}
                      /\ comments'[k].ip_address # ""
                      /\ comments'[k].user_agent = meta.user_agent
      ]_vars

\* C12's case: a guest comment whose body asked for is_approved=true and
\* carried its own ip_address and user_agent was stored unapproved, with the
\* forwarded address and the user agent of the request.
C12_Witness ==
    /\ resp.op = "comment_create" /\ resp.code = 201
    /\ resp.payload.user = "" /\ resp.payload.is_approved /\ resp.payload.forged
    /\ resp.meta.forwarded # ""
    /\ ~comments[resp.post].is_approved
    /\ comments[resp.post].ip_address = resp.meta.forwarded
    /\ comments[resp.post].user_agent = resp.meta.user_agent

\* C13: every stored comment has either a non-null user or both a non-empty
\* guest_name and a non-empty guest_email, also after the account of the
\* comment's user is deleted and after partial updates of the comment.
C13_CommenterIdentified ==
    \A k \in CommentIds :
        CommentExists(comments, k)
            => \/ comments[k].user # ""
               \/ comments[k].guest_name # "" /\ comments[k].guest_email # ""

----------------------------------------------------------------------------
(* Translations: language negotiation and the flattened representation      *)

Titles == {"a", "b"}
Rows == {[title |-> t, slug |-> g] : t \in Titles, g \in Titles}

\* The translation form of the admin (TranslatableAdmin): the row of post p
\* in language l is written, or removed.
TranslationSave(p, l, row) ==
    /\ PostExists(posts, p) /\ l \in Langs /\ row \in Rows
    /\ translations' = [translations EXCEPT ![p][l] = row]
    /\ resp' = PostResp("translation_save", "root", FALSE, p, 200)
    /\ UNCHANGED <<now, posts, reactions, req, prev, comments, contact, view_count, reading_time>>

TranslationDelete(p, l) ==
    /\ PostExists(posts, p) /\ translations[p][l] # NoRow
    /\ translations' = [translations EXCEPT ![p][l] = NoRow]
    /\ resp' = PostResp("translation_delete", "root", FALSE, p, 200)
    /\ UNCHANGED <<now, posts, reactions, req, prev, comments, contact, view_count, reading_time>>

\* _normalize_lang (translations.py:14-15): lower case, "_" to "-", over the
\* codes the model's requests use.
_normalize_lang(code) ==
    CASE code = "PT_BR" -> "pt-br"
      [] code = "EN" -> "en"
      [] OTHER -> code

\* "-" in lang, and lang.split("-")[0].
HasRegion(lang) == lang \in {"pt-br"}
BaseLanguage(lang) == IF lang = "pt-br" THEN "pt" ELSE lang

\* PARLER_DEFAULT_LANGUAGE_CODE, else LANGUAGE_CODE, else "en"
\* (translations.py:33-39).
DefaultLanguage == "en"

\* instance.get_available_languages(), normalized (translations.py:26).
Available(tr, p) == {_normalize_lang(l) : l \in {x \in Langs : tr[p][x] # NoRow}}

\* A request: ?lang=, the X-Language header ("" when absent) and what
\* get_language_from_request detects (always one of the supported languages).
LangArgs == {"", "en", "pt", "fr", "PT_BR"}
HeaderArgs == {"", "pt", "fr"}
DetectedArgs == {"en", "pt"}
LangRequests ==
    {[lang |-> a, x_language |-> h, detected |-> d] :
        a \in LangArgs, h \in HeaderArgs, d \in DetectedArgs}

\* next(iter(available), None): available is a Python set, whose iteration
\* order is not fixed; None is "".
FirstAvailableRaises(available) == IF available = {} THEN {"StopIteration"} ELSE available
FirstAvailable(available) == IF available = {} THEN {""} ELSE available

\* _pick_language (translations.py:18-44): the languages it can return.
_pick_language(r, available) ==
    LET asked == IF r.lang # "" THEN r.lang
                 ELSE IF r.x_language # "" THEN r.x_language
                 ELSE r.detected
        lang == _normalize_lang(asked)
        default_lang == _normalize_lang(DefaultLanguage)
    IN  IF lang \in available THEN {lang}
        ELSE IF HasRegion(lang) /\ BaseLanguage(lang) \in available
        THEN {BaseLanguage(lang)}
        ELSE IF default_lang \in available THEN {default_lang}
        ELSE FirstAvailable(available)

\* FlattenTranslatedFieldsMixin.to_representation (translations.py:121-146) on
\* post p: "translations" is popped; without a language the data goes out as
\* it is, else the fields of the chosen language are put at the root.
Omitted == "omitted"
\* The keys of super().to_representation (PostSerializer.Meta.fields, in part)
\* and data.pop("translations", None).
SerializedKeys == {"id", "status", "visibility", "published_at", "translations"}
Pop(keys, key) == keys \ {key}
Nested == "translations" \in Pop(SerializedKeys, "translations")
to_representation(r, p, lang) ==
    IF lang = "StopIteration"
    THEN [op |-> "represent", request |-> r, post |-> p, code |-> 500,
          lang |-> "", title |-> Omitted, slug |-> Omitted, nested |-> Nested]
    ELSE IF lang = ""
    THEN [op |-> "represent", request |-> r, post |-> p, code |-> 200,
          lang |-> "", title |-> Omitted, slug |-> Omitted, nested |-> Nested]
    ELSE [op |-> "represent", request |-> r, post |-> p, code |-> 200,
          lang |-> lang, title |-> translations[p][lang].title,
          slug |-> translations[p][lang].slug, nested |-> Nested]

\* A post is serialized for request r.
Represent(r, p) ==
    /\ PostExists(posts, p)
    /\ \E lang \in _pick_language(r, Available(translations, p)) :
          resp' = to_representation(r, p, lang)
    /\ UNCHANGED <<now, posts, reactions, req, prev, comments, translations, contact, view_count, reading_time>>

InitLanguage ==
    /\ now = 0
    /\ posts = [p \in PostIds |-> SomePost]
    /\ reactions = EmptyBag
    /\ req = [w \in Workers |-> Idle]
    /\ prev = NoResp
    /\ resp = NoPostResp
    /\ comments = [k \in CommentIds |-> NoComment]
    /\ translations = NoTranslations
    /\ contact = NoContact
    /\ view_count = NoViews
    /\ reading_time = NoViews

NextLanguage ==
    \/ \E p \in {1}, l \in Langs, row \in Rows : TranslationSave(p, l, row)
    \/ \E p \in {1}, l \in Langs : TranslationDelete(p, l)
    \/ \E r \in LangRequests, p \in PostIds : Represent(r, p)

SpecLanguage == InitLanguage /\ [][NextLanguage]_vars

\* The first of the given languages the entity has a translation in, "" if none.
RECURSIVE FirstTranslated(_, _)
FirstTranslated(cands, available) ==
    IF cands = <<>> THEN ""
    ELSE IF Head(cands) # "" /\ _normalize_lang(Head(cands)) \in available
    THEN _normalize_lang(Head(cands))
    ELSE FirstTranslated(Tail(cands), available)

\* C15: the language whose fields are returned is the first one, in the order
\* lang parameter, X-Language header, detected Accept-Language, default
\* language, first available language, for which the entity has a
\* translation; lang=xx gets the xx fields whenever the entity has them.
C15_LanguagePriority ==
    resp.op = "represent" =>
        LET r == resp.request
            available == Available(translations, resp.post)
            first == FirstTranslated(<<r.lang, r.x_language, r.detected,
                                       DefaultLanguage>>, available)
        IN  /\ first # "" => resp.lang = first
            /\ (first = "" /\ available # {}) => resp.lang \in available

\* C16: serializing an entity that has no translation in any language never
\* raises, whatever language the request asks for: the response goes out with
\* the translated fields omitted and without a nested translations key.
C16_NoTranslationNoError ==
    (resp.op = "represent" /\ Available(translations, resp.post) = {})
    => /\ resp.code = 200
       /\ resp.lang = ""
       /\ resp.title = Omitted /\ resp.slug = Omitted
       /\ ~resp.nested

\* C16's case: a post without translations was serialized for ?lang=fr with
\* an X-Language header, and the response went out.
C16_Witness ==
    /\ resp.op = "represent" /\ resp.code = 200
    /\ Available(translations, resp.post) = {}
    /\ resp.request.lang = "fr" /\ resp.request.x_language = "pt"
    /\ resp.title = Omitted

----------------------------------------------------------------------------
(* Listing with translated-field filters                                    *)

\* The query string of GET /posts/ : translations__title, translations__slug,
\* translations__language_code ("" when the parameter is absent) and
\* all_languages.
AllLanguagesArgs == {"", "Yes", "0"}
Queries ==
    {[title |-> t, slug |-> g, language_code |-> l, all_languages |-> a] :
        t \in {"", "a"}, g \in {"", "a"}, l \in {"", "en"}, a \in AllLanguagesArgs}

\* str(...).lower() in {"true", "1", "yes"} (filters.py:87-89).
Lower(v) == IF v = "Yes" THEN "yes" ELSE v
all_languages(q) == Lower(q.all_languages) \in {"true", "1", "yes"}

\* filters.py:91-94 and 96-107.
lang_overridden(q) == q.language_code # ""
has_translation_filter(q) == q.title # "" \/ q.slug # ""
\* filters.py:109-111.
apply_exists(q) == has_translation_filter(q) /\ ~all_languages(q) /\ ~lang_overridden(q)

\* get_language(): the language the framework activated for the request, the
\* one get_language_from_request detects.
get_language(r) == r.detected

\* One translation row satisfies every translated-field lookup of the query.
MatchAll(row, q) ==
    /\ row # NoRow
    /\ q.title = "" \/ row.title = q.title
    /\ q.slug = "" \/ row.slug = q.slug

\* Exists(translation_model.objects.filter(master=OuterRef("pk"),
\* language_code=current_language, **translation_lookups)) (filters.py:123-131).
ExistsInCurrentLanguage(tr, p, q, r) ==
    /\ get_language(r) \in Langs
    /\ MatchAll(tr[p][get_language(r)], q)

\* The rows of post p one filter of the filter set joins to.
Joined(tr, p, f, v) ==
    {l \in Langs : /\ tr[p][l] # NoRow
                   /\ IF f = "language_code" THEN l = v ELSE tr[p][l][f] = v}

\* super().filter_queryset (filters.py:132): the filter set applies each given
\* filter with a filter() call of its own, each joining the translation table
\* anew, so post p comes out once per combination of joined rows.
JoinCount(tr, p, q) ==
    (IF q.title = "" THEN 1 ELSE Cardinality(Joined(tr, p, "title", q.title)))
    * (IF q.slug = "" THEN 1 ELSE Cardinality(Joined(tr, p, "slug", q.slug)))
    * (IF q.language_code = "" THEN 1
       ELSE Cardinality(Joined(tr, p, "language_code", q.language_code)))

\* queryset.distinct() (filters.py:133-134).
Distinct(n) == IF n > 1 THEN 1 ELSE n

\* AutoFilterMixin.filter_queryset (filters.py:80-135) on the posts the caller
\* may see: how many times each post is in the result.
filter_queryset(tr, base, q, r) ==
    [p \in PostIds |->
        IF p \notin base THEN 0
        ELSE IF apply_exists(q)
        THEN IF ExistsInCurrentLanguage(tr, p, q, r)
             THEN Distinct(JoinCount(tr, p, q)) ELSE 0
        ELSE JoinCount(tr, p, q)]

ListRequests == {r \in LangRequests : r.x_language = "" /\ r.lang \in {"", "pt"}}

\* GET /posts/?translations__...= : filter_queryset(get_queryset()).
TranslatedList(c, q, r) ==
    /\ resp' = [op |-> "translated_list", caller |-> c, query |-> q, request |-> r,
                code |-> 200,
                counts |-> filter_queryset(translations,
                                           PostGetQueryset(posts, c, FALSE, now), q, r)]
    /\ UNCHANGED <<now, posts, reactions, req, prev, comments, translations, contact, view_count, reading_time>>

NextTranslatedList ==
    \/ \E p \in PostIds, l \in Langs, row \in Rows : TranslationSave(p, l, row)
    \/ \E p \in PostIds, l \in Langs : TranslationDelete(p, l)
    \/ \E q \in Queries, r \in ListRequests : TranslatedList(Anon, q, r)

SpecTranslatedList == InitLanguage /\ [][NextTranslatedList]_vars

\* C17: with translated-field filters, without all_languages and without a
\* language_code filter, an entity is returned only if one single translation
\* row of it, in the language its fields are rendered in for that request,
\* satisfies all the translated-field filters together.
C17_FilterInRenderedLanguage ==
    ( /\ resp.op = "translated_list"
      /\ resp.query.title # "" \/ resp.query.slug # ""
      /\ ~all_languages(resp.query)
      /\ resp.query.language_code = "" )
    => \A p \in PostIds :
          resp.counts[p] > 0
          => \A lang \in _pick_language(resp.request, Available(translations, p)) :
                lang \in Langs /\ MatchAll(translations[p][lang], resp.query)

\* C18: a list request with a translated-field filter and no all_languages
\* override never returns the same entity more than once.
C18_NoDuplicates ==
    ( /\ resp.op = "translated_list"
      /\ resp.query.title # "" \/ resp.query.slug # ""
      /\ ~all_languages(resp.query) )
    => \A p \in PostIds : resp.counts[p] <= 1

----------------------------------------------------------------------------
(* Deletions: what cascades and what is set to null                         *)

CategoryIds == {1}
SeriesIds == {1}

\* PostAdmin's change form sets author, category and series of a post.
AdminPostRefs(p, author, category, series) ==
    /\ PostExists(posts, p)
    /\ author \in Users \cup {""}
    /\ category \in CategoryIds \cup {0} /\ series \in SeriesIds \cup {0}
    /\ posts' = [posts EXCEPT ![p].author = author, ![p].category = category,
                              ![p].series = series]
    /\ resp' = PostResp("admin_refs", "root", FALSE, p, 200)
    /\ UNCHANGED <<now, reactions, req, prev, comments, translations, contact, view_count, reading_time>>

\* PostReactionAdmin's add form: a row for an existing post, kept unique by
\* the model's constraint.
AdminReactionAdd(p, u, r) ==
    /\ PostExists(posts, p) /\ u \in Users /\ r \in ReactionType
    /\ UniqueConstraintOk(reactions, Row(p, u, r))
    /\ reactions' = InsertRow(reactions, Row(p, u, r))
    /\ resp' = PostResp("admin_reaction_add", "root", FALSE, p, 200)
    /\ UNCHANGED <<now, posts, req, prev, comments, translations, contact, view_count, reading_time>>

\* The comments Django's collector deletes with the comments in S: their
\* replies, and the replies of these (Comment.parent is on_delete=CASCADE,
\* models.py:337-344).
RECURSIVE WithReplies(_, _)
WithReplies(cs, S) ==
    LET more == S \cup {j \in CommentIds : CommentExists(cs, j) /\ cs[j].parent \in S}
    IN  IF more = S THEN S ELSE WithReplies(cs, more)

\* Comment.post is on_delete=CASCADE (models.py:333-335): the comments that go
\* with post p.
CommentsKept(cs, p) == {}
CommentsOfPost(cs, p) ==
    WithReplies(cs, {k \in CommentIds : CommentExists(cs, k) /\ cs[k].post = p})

DeleteComments(cs, S) == [k \in CommentIds |-> IF k \in S THEN NoComment ELSE cs[k]]

\* post.delete(), which returns what it deleted (the response of the model
\* names the comments): the row goes, and with it its PostTag rows, its reactions
\* (PostTag.post and PostReaction.post are on_delete=CASCADE, models.py:308,
\* 380-382), its comments and its translations.
PostDeleted(p) ==
    /\ posts' = [posts EXCEPT ![p] = NoPost]
    /\ comments' = DeleteComments(comments, CommentsOfPost(comments, p))
    /\ reactions' = [t \in {x \in DOMAIN reactions : x[1] # p} |-> reactions[t]]
    /\ translations' = [translations EXCEPT ![p] = [l \in Langs |-> NoRow]]

\* DELETE /posts/{id}/ (ModelViewSet.destroy): get_object, instance.delete().
PostDestroy(c, p) ==
    /\ p \in PostIds
    /\ IF PostGetObject(posts, c, FALSE, p, now)
       THEN /\ PostDeleted(p)
            /\ resp' = [PostResp("post_delete", c, FALSE, p, 204)
                          EXCEPT !.ids = CommentsOfPost(comments, p)]
       ELSE /\ resp' = PostResp("post_delete", c, FALSE, p, 404)
            /\ UNCHANGED <<posts, comments, reactions, translations, contact, view_count, reading_time>>
    /\ UNCHANGED <<now, req, prev, contact, view_count, reading_time>>

\* The admin site's delete of a post.
AdminPostDelete(p) ==
    /\ PostExists(posts, p)
    /\ PostDeleted(p)
    /\ resp' = [PostResp("post_delete", "root", FALSE, p, 204)
                  EXCEPT !.ids = CommentsOfPost(comments, p)]
    /\ UNCHANGED <<now, req, prev, contact, view_count, reading_time>>

\* The admin site's delete of a comment (CommentAdmin): comment.delete().
AdminCommentDelete(k) ==
    /\ CommentExists(comments, k)
    /\ comments' = DeleteComments(comments, WithReplies(comments, {k}))
    /\ resp' = PostResp("comment_delete", "root", FALSE, k, 204)
    /\ UNCHANGED <<now, posts, reactions, req, prev, translations, contact, view_count, reading_time>>

\* A category is deleted: Post.category is on_delete=SET_NULL
\* (models.py:197-204).
CategoryDelete(cat) ==
    /\ cat \in CategoryIds
    /\ posts' = [p \in PostIds |->
                   IF posts[p].category = cat THEN SetNull(posts[p], "category")
                   ELSE posts[p]]
    /\ resp' = PostResp("category_delete", "root", FALSE, cat, 204)
    /\ UNCHANGED <<now, reactions, req, prev, comments, translations, contact, view_count, reading_time>>

\* A series is deleted: Post.series is on_delete=SET_NULL (models.py:205-212).
SeriesDelete(sr) ==
    /\ sr \in SeriesIds
    /\ posts' = [p \in PostIds |->
                   IF posts[p].series = sr THEN SetNull(posts[p], "series")
                   ELSE posts[p]]
    /\ resp' = PostResp("series_delete", "root", FALSE, sr, 204)
    /\ UNCHANGED <<now, reactions, req, prev, comments, translations, contact, view_count, reading_time>>

\* The comment bodies of these runs: a comment or a reply by a user, on any post.
ReplyPayloads ==
    {Payload(p, par, "alice", "", "", FALSE, FALSE) :
        p \in PostIds \cup {0}, par \in CommentIds \cup {0}}

NextDelete ==
    \/ \E p \in PostIds : AdminPostAdd(p, "published", "public", 0)
    \/ \E p \in PostIds, on \in BOOLEAN : AdminPostTag(p, on)
    \/ \E p \in PostIds, refs \in {<<"", 0, 0>>, <<"alice", 1, 1>>} :
          AdminPostRefs(p, refs[1], refs[2], refs[3])
    \/ \E p \in PostIds : AdminReactionAdd(p, "alice", "like")
    \/ \E k \in CommentIds, q \in ReplyPayloads : CommentCreate(Anon, k, q, PlainMeta)
    \/ \E c \in {Anon, "root"}, p \in PostIds : PostDestroy(c, p)
    \/ \E p \in PostIds : AdminPostDelete(p)
    \/ \E k \in CommentIds : AdminCommentDelete(k)
    \/ UserDelete("alice")
    \/ \E cat \in CategoryIds : CategoryDelete(cat)
    \/ \E sr \in SeriesIds : SeriesDelete(sr)

SpecDelete == InitPost /\ [][NextDelete]_vars

\* No comment, reaction or post-tag refers to a post that does not exist.
NoDangling ==
    /\ \A k \in CommentIds :
          CommentExists(comments, k) => PostExists(posts, comments[k].post)
    /\ \A t \in DOMAIN reactions : reactions[t] > 0 => PostExists(posts, t[1])
    /\ \A p \in PostIds : posts[p].tagged => PostExists(posts, p)

\* What a step that deletes something leaves behind.
DeleteEffect ==
    /\ (Did("post_delete") /\ resp'.code = 204)
          => /\ ~PostExists(posts', resp'.post)
             /\ \A k \in CommentIds :
                   CommentExists(comments', k) => comments'[k].post # resp'.post
             /\ \A t \in DOMAIN reactions' : t[1] # resp'.post
             /\ ~posts'[resp'.post].tagged
    /\ Did("comment_delete")
          => /\ ~CommentExists(comments', resp'.post)
             /\ \A j \in CommentIds :
                   (CommentExists(comments, j) /\ comments[j].parent = resp'.post)
                      => ~CommentExists(comments', j)
    /\ Did("user_delete")
          => \A p \in PostIds :
                posts'[p] = [posts[p] EXCEPT
                               !.author = IF @ = resp'.caller THEN "" ELSE @]
    /\ Did("category_delete")
          => \A p \in PostIds :
                posts'[p] = [posts[p] EXCEPT
                               !.category = IF @ = resp'.post THEN 0 ELSE @]
    /\ Did("series_delete")
          => \A p \in PostIds :
                posts'[p] = [posts[p] EXCEPT
                               !.series = IF @ = resp'.post THEN 0 ELSE @]

\* C19: after a post is deleted no comment, reaction or post-tag row refers to
\* it, and after a comment is deleted none of its replies remain; deleting a
\* post's author, category or series keeps the post and sets that reference to
\* null; in every reachable state no comment, reaction or post-tag refers to a
\* post that does not exist.
C19_DeletesCascadeOrNull == []NoDangling /\ [][DeleteEffect]_vars

\* C19's case: a post was deleted through the API together with two comments,
\* a comment and its reply, while the other post kept its author reference
\* cleared by an earlier account deletion.
C19_Witness ==
    /\ resp.op = "post_delete" /\ resp.code = 204 /\ resp.caller = Anon
    /\ resp.ids = {1, 2}
    /\ \A k \in resp.ids : ~CommentExists(comments, k)
    /\ \E p \in PostIds :
          /\ PostExists(posts, p)
          /\ posts[p].author = "" /\ posts[p].category = 1 /\ posts[p].tagged

----------------------------------------------------------------------------
(* Writing the translations field through the API                           *)

\* The JSON value sent as "translations": absent, null, a string, or an object
\* whose entry for a language is absent, an object or a string.
EntryKinds == {"absent", "object", "string"}
TranslationsValues ==
    {[kind |-> k, entries |-> e] :
        k \in {"absent", "null", "string"}, e \in {[l \in Langs |-> "absent"]}}
    \cup {[kind |-> "object", entries |-> e] : e \in [Langs -> EntryKinds]}

\* _("Translation for '") + {lang_code} + _("' must be an object.")
\* (translations.py:111): a string added to a set, which is a TypeError.
EntryError == "TypeError"

\* Field.run_validation with TranslationsField.to_internal_value
\* (translations.py:98-118): what the field makes of the value.
to_internal_value(v) ==
    IF v.kind = "absent" THEN "skipped"
    ELSE IF v.kind = "null" THEN "ValidationError"
    ELSE IF v.kind # "object" THEN "ValidationError"
    ELSE IF \E l \in Langs : v.entries[l] = "string" THEN EntryError
    ELSE "cleaned"

\* The status the request ends with: a ValidationError is answered 400, any
\* other exception 500; "stored" is the status of the request that goes on.
StatusOf(outcome, stored) ==
    IF outcome = "ValidationError" THEN 400
    ELSE IF outcome = "TypeError" THEN 500
    ELSE stored

TranslationsResp(op, c, p, v, code) ==
    [op |-> op, caller |-> c, post |-> p, code |-> code, value |-> v,
     detail |-> IF code = 400 THEN "must be an object" ELSE ""]

\* POST /posts/ with a translations value.  The cleaned value reaches
\* ModelSerializer.create as the keyword _translations (source="*"), which
\* Post(**validated_data) does not accept: a TypeError.
PostCreateTranslations(c, p, v) ==
    /\ p \in PostIds /\ ~PostExists(posts, p)
    /\ \A q \in PostIds : q < p => PostExists(posts, q)
    /\ LET outcome == to_internal_value(v)
           code == StatusOf(outcome, IF outcome = "cleaned" THEN 500 ELSE 201)
       IN  /\ posts' = IF code = 201
                       THEN [posts EXCEPT ![p] = Save([NoPost EXCEPT !.status = "draft"], now)]
                       ELSE posts
           /\ resp' = TranslationsResp("translations_create", c, p, v, code)
    /\ UNCHANGED <<now, reactions, req, prev, comments, translations, contact, view_count, reading_time>>

\* PATCH /posts/{id}/ with a translations value: get_object, the field, then
\* ModelSerializer.update, which sets the attribute _translations on the
\* instance and saves; no translation row is written.
PostPatchTranslations(c, p, v) ==
    /\ p \in PostIds
    /\ LET outcome == to_internal_value(v)
           code == IF ~PostGetObject(posts, c, FALSE, p, now) THEN 404
                   ELSE StatusOf(outcome, 200)
       IN  /\ posts' = IF code = 200 THEN [posts EXCEPT ![p] = Save(@, now)] ELSE posts
           /\ resp' = TranslationsResp("translations_patch", c, p, v, code)
    /\ UNCHANGED <<now, reactions, req, prev, comments, translations, contact, view_count, reading_time>>

NextTranslationsField ==
    \/ \E l \in Langs, row \in {[title |-> "a", slug |-> "a"]} : TranslationSave(1, l, row)
    \/ \E c \in PostCallers, p \in PostIds, v \in TranslationsValues :
          PostCreateTranslations(c, p, v)
    \/ \E c \in PostCallers, p \in PostIds, v \in TranslationsValues :
          PostPatchTranslations(c, p, v)

SpecTranslationsField == InitComment /\ [][NextTranslationsField]_vars

\* C20: a create or update whose translations value is not an object, or
\* whose entry for some language is not an object, is rejected with a
\* 400-class validation error carrying a descriptive message, and nothing is
\* stored.
C20_MalformedTranslationsRejected ==
    [][( /\ Did("translations_create")
            \/ (Did("translations_patch") /\ resp'.code # 404)
         /\ \/ resp'.value.kind \in {"null", "string"}
            \/ /\ resp'.value.kind = "object"
               /\ \E l \in Langs : resp'.value.entries[l] = "string" )
       => /\ resp'.code \in 400 .. 499
          /\ resp'.detail # ""
          /\ posts' = posts /\ translations' = translations
      ]_vars

----------------------------------------------------------------------------
(* Contact messages                                                         *)

MaxMessages == 2
MessageIds == 1 .. MaxMessages

\* auth_user rows the notification query reads: is_superuser, is_active, email.
MailAccounts ==
    [ann |-> [is_superuser |-> TRUE,  is_active |-> TRUE,  email |-> "ann@example.org"],
     ben |-> [is_superuser |-> TRUE,  is_active |-> TRUE,  email |-> ""],
     cy  |-> [is_superuser |-> TRUE,  is_active |-> FALSE, email |-> "cy@example.org"],
     dee |-> [is_superuser |-> FALSE, is_active |-> TRUE,  email |-> "dee@example.org"]]

\* User.objects.filter(is_superuser=True, is_active=True, email__isnull=False)
\*     .exclude(email="").values_list("email", flat=True)
superuser_emails ==
    {MailAccounts[u].email :
        u \in {a \in DOMAIN MailAccounts :
                 /\ MailAccounts[a].is_superuser /\ MailAccounts[a].is_active
                 /\ MailAccounts[a].email # ""}}

\* Where _send_notification_email can raise: rendering the template or the
\* SMTP send (fail_silently=False).
MailFailures == {"none", "render", "send"}

\* _send_notification_email: the mail handed to the mail server, if any.
\* Returns the set of mails sent (empty when there is no recipient or when an
\* exception interrupts it; perform_create swallows the exception).
SendNotification(id, failure) ==
    IF superuser_emails = {} \/ failure # "none" THEN {}
    ELSE {[message |-> id, to |-> superuser_emails]}

\* Models that subclass parler's TranslatableModel, and serializers that mix
\* in FlattenTranslatedFieldsMixin.
TranslatableModels == {"post", "category", "series"}
FlattenedSerializers == {"post", "category", "series", "contactmessage"}

\* FlattenTranslatedFieldsMixin.to_representation calls
\* instance.get_available_languages() (translations.py:26), which only a
\* TranslatableModel has: on any other model it raises AttributeError.
RepresentationRaises(model) ==
    model \in FlattenedSerializers /\ model \notin TranslatableModels

\* DjangoModelPermissionsOrAnonCreate.has_permission
DjangoModelPermissionsOrAnonCreate(c, action) ==
    action = "create" \/ (is_authenticated(c) /\ (action \in {"list", "retrieve"} \/ has_perms(c)))

\* POST /contact-messages/: CreateModelMixin.create with perform_create, then
\* the response built from serializer.data.
ContactCreate(c, id, valid, failure) ==
    /\ id \in MessageIds /\ id \notin contact.messages
    /\ \A j \in MessageIds : j < id => j \in contact.messages
    /\ LET allowed   == DjangoModelPermissionsOrAnonCreate(c, "create")
           saved     == allowed /\ valid
           attempted == saved /\ contact.EMAIL_HOST # ""
           mails     == IF attempted THEN SendNotification(id, failure) ELSE {}
           code      == IF ~allowed THEN 403
                        ELSE IF ~valid THEN 400
                        ELSE IF RepresentationRaises("contactmessage") THEN 500
                        ELSE 201
       IN  /\ contact' = [contact EXCEPT
                            !.messages = IF saved THEN @ \cup {id} ELSE @,
                            !.outbox = @ \cup mails]
           /\ resp' = [op |-> "contact_create", caller |-> c, id |-> id,
                       valid |-> valid, failure |-> failure, code |-> code,
                       attempted |-> attempted, mails |-> mails]
    /\ UNCHANGED <<now, posts, reactions, req, prev, comments, translations, view_count, reading_time>>

\* The mail host is a setting read once at import (views.py:10): either unset
\* or set for the whole run.
MailHosts == {"", "smtp.example.org"}

InitContact ==
    /\ now = 0
    /\ posts = [p \in PostIds |-> NoPost]
    /\ reactions = EmptyBag
    /\ req = [w \in Workers |-> Idle]
    /\ prev = NoResp
    /\ resp = [op |-> "", caller |-> "", id |-> 0, valid |-> FALSE,
               failure |-> "none", code |-> 0, attempted |-> FALSE, mails |-> {}]
    /\ comments = [k \in CommentIds |-> NoComment]
    /\ translations = NoTranslations
    /\ contact \in {[NoContact EXCEPT !.EMAIL_HOST = h] : h \in MailHosts}
    /\ view_count = NoViews
    /\ reading_time = NoViews

NextContact ==
    \E c \in Callers, id \in MessageIds, valid \in BOOLEAN, failure \in MailFailures :
        ContactCreate(c, id, valid, failure)

SpecContact == InitContact /\ [][NextContact]_vars

\* C21: creating a contact message always stores the message and answers
\* success, whether or not outbound mail is configured and whether or not
\* sending the notification fails; a notification is attempted only when a
\* mail host is configured, and is addressed only to active superusers with a
\* non-empty e-mail address.
C21_ContactCreateAlwaysSucceeds ==
    [][(Did("contact_create") /\ resp'.valid)
       => /\ resp'.id \in contact'.messages
          /\ resp'.code \in 200 .. 299
          /\ resp'.attempted => contact.EMAIL_HOST # ""
          /\ \A m \in resp'.mails :
                \A e \in m.to :
                   \E a \in DOMAIN MailAccounts :
                      /\ MailAccounts[a].email = e /\ e # ""
                      /\ MailAccounts[a].is_superuser /\ MailAccounts[a].is_active
      ]_vars

----------------------------------------------------------------------------
(* Reading time                                                             *)

MaxWords == 700
\* Body lengths tried: the multiples of 100 words and their neighbours.
WordCounts == {w \in 0 .. MaxWords : w % 100 \in {0, 1, 99}}

Max(a, b) == IF a >= b THEN a ELSE b

\* Python's round() of words / 200: to the nearest integer, a tie going to the
\* even one.
round(words) ==
    LET q == words \div 200
        r == words % 200
    IN  IF r > 100 THEN q + 1
        ELSE IF r < 100 THEN q
        ELSE IF q % 2 = 1 THEN q + 1 ELSE q

\* Post.save (models.py:297-300): words = len(body.split());
\* reading_time = max(1, round(words / 200)) if words else 0
ReadingTime(words) == IF words # 0 THEN Max(1, round(words)) ELSE 0

\* The admin saves post p with a body of the given number of words: the form
\* sets the translated body, then Post.save() runs.  (The other saves of a
\* post leave the body alone, so they recompute the same reading_time.)
AdminPostBody(p, words) ==
    /\ PostExists(posts, p)
    /\ posts' = [posts EXCEPT ![p] = Save(@, now)]
    /\ reading_time' = [reading_time EXCEPT ![p] = ReadingTime(words)]
    /\ resp' = [op |-> "post_body", post |-> p, words |-> words]
    /\ UNCHANGED <<now, reactions, req, prev, comments, translations, contact, view_count>>

NextReadingTime ==
    \/ \E p \in PostIds, words \in WordCounts : AdminPostBody(p, words)
    \/ \E p \in PostIds, st \in {"draft"}, vis \in {"public"} :
          AdminPostAdd(p, st, vis, NoTime)

SpecReadingTime == InitPost /\ [][NextReadingTime]_vars

\* Rounding to the nearest integer with a tie going up.
RoundHalfUp(words) == (words + 100) \div 200

\* C22: after every save of a post, reading_time equals
\* max(1, round(word_count/200)) when the body has word_count > 0 words and 0
\* when it has none, for every word count including the half-way counts 100,
\* 300 and 500.
C22_ReadingTime ==
    [][Did("post_body")
       => reading_time'[resp'.post] =
             IF resp'.words > 0 THEN Max(1, RoundHalfUp(resp'.words)) ELSE 0
      ]_vars

----------------------------------------------------------------------------
(* PostReactionViewSet.summary                                              *)

\* Count("id") over the rows of post p with reaction r, all users together.
RECURSIVE CountRows(_, _, _, _)
CountRows(rs, p, r, us) ==
    IF us = {} THEN 0
    ELSE LET u == CHOOSE x \in us : TRUE
         IN  RowCount(rs, Row(p, u, r)) + CountRows(rs, p, r, us \ {u})

GroupCountOnce(rs, p, r) == IF CountRows(rs, p, r, Users) > 0 THEN 1 ELSE 0
GroupCount(rs, p, r) == CountRows(rs, p, r, Users)

\* PostReaction.objects.filter(post_id=post_id).values("reaction")
\*     .annotate(count=Count("id")), as the dict {reaction: count}: one group
\* per reaction value that has a row.
SummaryDict(rs, p) ==
    [r \in {k \in ReactionType : GroupCount(rs, p, k) > 0} |-> GroupCount(rs, p, r)]

\* sum(summary.values())
RECURSIVE SumValues(_, _)
SumValues(d, ks) ==
    IF ks = {} THEN 0
    ELSE LET k == CHOOSE x \in ks : TRUE
         IN  d[k] + SumValues(d, ks \ {k})

\* GET /post-reactions/summary/{post_id}/ (views.py:269-280): reads the table
\* directly, without get_queryset or filter_queryset.
Summary(c, p) ==
    /\ p \in PostIds
    /\ LET summary == SummaryDict(reactions, p)
       IN  resp' = [op |-> "summary", caller |-> c, post |-> p, code |-> 200,
                    reactions |-> summary,
                    total |-> SumValues(summary, DOMAIN summary)]
    /\ UNCHANGED <<now, posts, reactions, req, prev, comments, translations, contact, view_count, reading_time>>

SummaryUsers == {"alice", "bob", "root"}
SummaryKinds == {"like", "love"}

NextSummary ==
    \/ \E u \in SummaryUsers, r \in SummaryKinds : AdminReactionAdd(1, u, r)
    \/ \E u \in SummaryUsers, r \in SummaryKinds : AdminReactionDelete(Row(1, u, r))
    \/ \E c \in ReactCallers, p \in PostIds : Summary(c, p)

SpecSummary == InitReact /\ [][NextSummary]_vars

\* The reaction rows of post p of kind r, as (user) entries of the table.
RowsOfKind(p, r) == {u \in Users : BagIn(Row(p, u, r), reactions)}

\* C23: for every post, summary returns, for each reaction kind that has at
\* least one row for the post, the number of rows of that kind over all users,
\* and a total equal to the sum of those counts, which equals the number of
\* reaction rows of the post; kinds with no row are left out.
C23_SummaryCounts ==
    [][(Did("summary") /\ UNCHANGED reactions)
       => /\ DOMAIN resp'.reactions =
                {r \in ReactionType : RowsOfKind(resp'.post, r) # {}}
          /\ \A r \in DOMAIN resp'.reactions :
                resp'.reactions[r] = Cardinality(RowsOfKind(resp'.post, r))
          /\ resp'.total = SumValues(resp'.reactions, DOMAIN resp'.reactions)
          /\ resp'.total =
                Cardinality({t \in PostIds \X Users \X ReactionType :
                               t[1] = resp'.post /\ BagIn(t, reactions)})
      ]_vars

\* C23's case: a summary of a post with two rows of one kind from different
\* users and one row of another kind.
C23_Witness ==
    /\ resp.op = "summary" /\ resp.post = 1
    /\ resp.reactions = [like |-> 2, love |-> 1]
    /\ resp.total = 3

----------------------------------------------------------------------------
\* C24: on a view set built on AutoFilterMixin alone (comments), whose model
\* has no translation side-table, filter_queryset completes without error, so
\* list, retrieve, approve and reject reach their own logic: none of them is
\* answered with a server error.
C24_FilterQuerysetCompletes ==
    [][(\E op \in {"comment_list", "comment_retrieve", "approve", "reject"} : Did(op))
       => resp'.code # 500
      ]_vars

----------------------------------------------------------------------------
\* What an "object" entry of a translations payload carries: a value for the
\* declared translated fields (and a key that is not a declared field, which
\* to_internal_value leaves out of the cleaned entry).
EntryRow == [title |-> "b", slug |-> "b"]

\* C25: an entity created or updated through the API with a translations
\* payload of the form {language: {field: value}} stores those values: the
\* request succeeds and a later read in that language returns every written
\* value of a declared translated field.
C25_TranslationsPayloadStored ==
    [][( /\ Did("translations_create")
            \/ (Did("translations_patch") /\ resp'.code # 404)
         /\ resp'.value.kind = "object"
         /\ \A l \in Langs : resp'.value.entries[l] # "string"
         /\ \E l \in Langs : resp'.value.entries[l] = "object" )
       => /\ resp'.code \in 200 .. 299
          /\ \A l \in Langs :
                resp'.value.entries[l] = "object"
                => translations'[resp'.post][l] = EntryRow
      ]_vars

----------------------------------------------------------------------------
\* C26: the CreateOrListReadOnly permission lets any caller, including an
\* anonymous one, create, list and retrieve comments (none of these is
\* answered "permission denied"), and requires Django model permissions for
\* every other action (approve and reject by a caller without them are
\* denied).
C26_CreateListRetrieveOpen ==
    [][ /\ (\E op \in {"comment_create", "comment_list", "comment_retrieve"} : Did(op))
           => resp'.code \notin {401, 403}
        /\ ( /\ Did("approve") \/ Did("reject")
             /\ ~(is_authenticated(resp'.caller) /\ has_perms(resp'.caller)) )
           => resp'.code = 403 /\ comments' = comments
      ]_vars

----------------------------------------------------------------------------
(* The view counter: PostViewSet.retrieve, publish and archive, step by     *)
(* step.  Each worker runs one request: get_object() loads the row, a later *)
(* step writes.                                                             *)

MaxViews == 3

IdleView == [op |-> "", pc |-> "idle", caller |-> "", post |-> 0,
             instance |-> NoPost, seen |-> 0]

ViewResp(op, c, p, code) == [op |-> op, caller |-> c, post |-> p, code |-> code]

\* instance = self.get_object() (views.py:73, 118, 139): the row as it is now,
\* its view_count included; 404 when the caller's queryset does not hold it,
\* and publish answers 400 at once for a post already published.
GetObject(w, op, c, p) ==
    /\ req[w].pc \in {"idle", "done"}
    /\ p \in PostIds
    /\ op = "retrieve" => view_count[p] < MaxViews
    /\ LET code == IF ~PostGetObject(posts, c, FALSE, p, now) THEN 404
                   ELSE IF op = "publish" /\ posts[p].status = "published" THEN 400
                   ELSE 0
       IN  /\ req' = [req EXCEPT ![w] =
                        [op |-> op, pc |-> IF code = 0 THEN "loaded" ELSE "done",
                         caller |-> c, post |-> p,
                         instance |-> IF code = 0 THEN posts[p] ELSE NoPost,
                         seen |-> IF code = 0 THEN view_count[p] ELSE 0]]
           /\ resp' = ViewResp(op, c, p, code)
    /\ UNCHANGED <<now, posts, reactions, prev, comments, translations, contact, view_count, reading_time>>

\* The value the counter is set to: instance.view_count + 1, computed from the
\* loaded instance (views.py:76-78).
Incremented(current, seen) == seen + 1

\* Post.objects.filter(pk=instance.pk).update(view_count=instance.view_count + 1)
RetrieveUpdate(w) ==
    /\ req[w].pc = "loaded" /\ req[w].op = "retrieve"
    /\ view_count' = [view_count EXCEPT
                        ![req[w].post] = Incremented(@, req[w].seen)]
    /\ req' = [req EXCEPT ![w].pc = "done"]
    /\ resp' = ViewResp("retrieve", req[w].caller, req[w].post, 200)
    /\ UNCHANGED <<now, posts, reactions, prev, comments, translations, contact, reading_time>>

\* post.save() of the loaded instance (views.py:131, 141): every column is
\* written from the instance, view_count among them.
SaveInstance(w, post) ==
    /\ posts' = [posts EXCEPT ![req[w].post] = Save(post, now)]
    /\ view_count' = [view_count EXCEPT ![req[w].post] = req[w].seen]
    /\ req' = [req EXCEPT ![w].pc = "done"]
    /\ resp' = ViewResp(req[w].op, req[w].caller, req[w].post, 200)
    /\ UNCHANGED <<now, reactions, prev, comments, translations, contact, reading_time>>

PublishSave(w) ==
    /\ req[w].pc = "loaded" /\ req[w].op = "publish"
    /\ SaveInstance(w, [req[w].instance EXCEPT
                           !.status = "published",
                           !.published_at = IF @ = NoTime THEN now ELSE @])

ArchiveSave(w) ==
    /\ req[w].pc = "loaded" /\ req[w].op = "archive"
    /\ SaveInstance(w, [req[w].instance EXCEPT !.status = "archived"])

InitViews ==
    /\ now = 0
    /\ posts = [p \in PostIds |-> IF p = 1 THEN SomePost ELSE NoPost]
    /\ reactions = EmptyBag
    /\ req = [w \in Workers |-> IdleView]
    /\ prev = NoResp
    /\ resp = ViewResp("", "", 0, 0)
    /\ comments = [k \in CommentIds |-> NoComment]
    /\ translations = NoTranslations
    /\ contact = NoContact
    /\ view_count = NoViews
    /\ reading_time = NoViews

NextViews ==
    \/ \E w \in Workers, op \in {"retrieve", "publish", "archive"},
          c \in PostCallers, p \in PostIds : GetObject(w, op, c, p)
    \/ \E w \in Workers : RetrieveUpdate(w)
    \/ \E w \in Workers : PublishSave(w)
    \/ \E w \in Workers : ArchiveSave(w)

SpecViews == InitViews /\ [][NextViews]_vars

\* The step completes a successful retrieve of post p.
RetrieveCompletes(p) ==
    \E w \in Workers :
        /\ req[w].pc = "loaded" /\ req[w].op = "retrieve" /\ req[w].post = p
        /\ req'[w].pc = "done"

\* C27: each successful retrieve of a post increases its stored view_count by
\* exactly one, also when retrieves run concurrently or are interleaved with
\* publish or archive saves of the same post, and view_count never decreases.
C27_ViewCountExact ==
    [][\A p \in PostIds :
          /\ view_count'[p] >= view_count[p]
          /\ RetrieveCompletes(p) => view_count'[p] = view_count[p] + 1
      ]_vars

----------------------------------------------------------------------------
\* C28: a caller who is not authenticated staff can never change the status
\* of any post through the publish or archive actions: such a request is
\* answered with an error or not-found and leaves every post unchanged.
C28_OnlyStaffChangeStatus ==
    [][( /\ Did("publish") \/ Did("archive")
         /\ NotStaff(resp'.caller) )
       => resp'.code >= 400 /\ posts' = posts
      ]_vars

----------------------------------------------------------------------------
(* Whose reactions a caller can touch                                       *)

\* PostReactionViewSet.get_queryset (views.py:223-229): staff see every row,
\* anyone else the rows whose user is the caller.
ReactionGetQueryset(rs, c) ==
    IF is_staff(c) THEN BagToSet(rs) ELSE {t \in BagToSet(rs) : t[2] = c}

\* GET /post-reactions/: get_queryset() raises TypeError for an anonymous
\* caller (filter(user=AnonymousUser)); filter_queryset raises on this view
\* set.
ReactionList(c) ==
    /\ LET code == IF ~is_authenticated(c) THEN 500
                   ELSE IF FilterQuerysetRaises("reaction") THEN 500
                   ELSE 200
       IN  resp' = [op |-> "reaction_list", caller |-> c, code |-> code,
                    rows |-> IF code = 200 THEN ReactionGetQueryset(reactions, c)
                             ELSE {}]
    /\ UNCHANGED <<now, posts, reactions, req, prev, comments, translations, contact, view_count, reading_time>>

OwnCallers == {"alice", "bob"}
ListCallers == {"alice", "root", Anon}

NextReactOwn ==
    \/ \E w \in Workers, c \in OwnCallers, u \in UserArgs : ToggleGet(w, c, 1, "like", u)
    \/ \E w \in Workers : ToggleDelete(w)
    \/ \E w \in Workers : ToggleValidate(w)
    \/ \E w \in Workers : PerformCreate(w)
    \/ \E w \in Workers, u \in UserArgs : ReactionCreate(w, "alice", 1, "love", u)
    \/ \E c \in ListCallers : ReactionList(c)

SpecReactOwn == InitReact /\ [][NextReactOwn]_vars

\* C29: toggle and reaction create only ever create or delete reaction rows
\* whose user is the requesting user, whatever user value the payload carries,
\* and a non-staff caller's reaction list holds only that caller's own
\* reactions.
C29_OwnReactionsOnly ==
    [][ /\ \A t \in BagToSet(reactions) \cup BagToSet(reactions') :
              RowCount(reactions', t) # RowCount(reactions, t)
              => \E w \in Workers :
                    /\ req[w].pc \in {"found", "valid"} /\ req'[w].pc = "done"
                    /\ req[w].op \in {"toggle", "create"}
                    /\ t[2] = req[w].caller
        /\ (Did("reaction_list") /\ NotStaff(resp'.caller))
              => \A t \in resp'.rows : t[2] = resp'.caller
        /\ \A c \in Users :
              NotStaff(c) => \A t \in ReactionGetQueryset(reactions', c) : t[2] = c
      ]_vars

\* C29's case: of two identical toggles by alice whose payload names bob, one
\* has created its row, and the row belongs to alice; bob has none.
C29_Witness ==
    \E w \in Workers, o \in Workers :
        /\ req[w].pc = "done" /\ req[w].raced /\ req[w].detail = "added"
        /\ req[w].caller = "alice"
        /\ req[o].pc = "valid" /\ req[o].raced /\ req[o].op = "toggle"
        /\ req[o].caller = "alice" /\ req[o].user = "bob"
        /\ RowCount(reactions, Row(1, "alice", "like")) = 1
        /\ RowCount(reactions, Row(1, "bob", "like")) = 0

----------------------------------------------------------------------------
(* Time passing: the listings while the clock runs                          *)

NextTimePasses ==
    \/ Tick
    \/ \E p \in PostIds, st \in PostStatus, vis \in PostVisibility,
          at \in Times \cup {NoTime} : AdminPostAdd(p, st, vis, at)
    \/ \E p \in PostIds, f \in PostFields :
          \E v \in FieldValues(f) : AdminPostChange(p, f, v)
    \/ \E c \in PostCallers : PostList(c, FALSE)
    \/ \E c \in PostCallers, p \in PostIds : PostRetrieve(c, FALSE, p)
    \/ \E c \in PostCallers : PublishedListing(c, FALSE)
    \/ \E c \in PostCallers : Scheduled(c)

SpecTimePasses == InitPost /\ [][NextTimePasses]_vars

\* No post satisfies both PostQuerySet.published and PostQuerySet.scheduled.
NeverInBoth ==
    \A p \in PostIds :
        ~(IsPublished(posts[p], now) /\ IsScheduled(posts[p], now))

\* A step that only moves the clock changes no post; a read by a caller who is
\* not staff hands out no post whose status is scheduled.
TimeAloneChangesNothing ==
    /\ now' # now => posts' = posts
    /\ ( /\ \E op \in {"list", "retrieve", "published"} : Did(op)
         /\ NotStaff(resp'.caller) )
       => \A p \in resp'.ids : posts[p].status # "scheduled"

====
